---------------------------- MODULE Spec2Model ----------------------------
(***************************************************************************)
(* The cyclic recursive accumulation engine of                             *)
(* src/src/factorial/dynamic_size_product.rs: the chunk circuit built by   *)
(* build_recursive_product_circuit, the compression circuit built by       *)
(* product_circuit_data_constructor, and the driver prove / verify.        *)
(*                                                                         *)
(* The proving backend is idealised: proving a circuit succeeds exactly    *)
(* when the witness satisfies the constraints the builder calls add, and   *)
(* a proof verifies exactly when it was produced that way.                 *)
(*                                                                         *)
(* The Goldilocks order 2^64 - 2^32 + 1 and the 32-bit range of the factor *)
(* counter do not fit the integers of the model checker.  ORDER and        *)
(* MAX_N_FACTORS_BITS are scaled, keeping the ordering the code relies on: *)
(* 2^CHUNK_SIZE_LOG < 2^MAX_N_FACTORS_BITS < ORDER.                        *)
(***************************************************************************)
EXTENDS Integers, Sequences, FiniteSets, TLC

\* ------------------------------------------------------------------ bounds
\* the bytes of a usize, scaled from 8
USIZE_BYTES == 2

\* order of BaseField (scaled)
ORDER == 257
\* bit width of the range check on remaining_factors_before_chunk (scaled)
MAX_N_FACTORS_BITS == 7
\* largest in-range n_factors handed to prove
MaxN == 70
\* cap height of the FRI configuration (num_cap_elements = 2^CapHeight)
CapHeight == 1
\* longest chain of chunk proofs a dishonest prover builds
MaxChain == 3

\* --------------------------------------------------------------- constants
CHUNK_SIZE_LOG == 5
N_BOOTSTRAP_STEPS == 2

Pow2(k) == 2 ^ k

CHUNK_SIZE == Pow2(CHUNK_SIZE_LOG)

BaseField == 0 .. (ORDER - 1)
ZERO == 0
ONE == 1 % ORDER

\* a target the witness leaves unset
None == -1

\* ---------------------------------------------------------- field gadgets
from_canonical_usize(n) == n % ORDER

\* the debug_assert!(n < ORDER) of from_canonical_usize: a build with debug
\* assertions panics on a count that is no canonical field element, a build
\* without them goes on with the count reduced modulo ORDER
from_canonical_usize_panics(n, debug_assertions) == debug_assertions /\ ~(n < ORDER)

add(a, b) == (a + b) % ORDER

sub(a, b) == (a - b + ORDER) % ORDER

mul(a, b) == (a * b) % ORDER

is_equal(a, b) == a = b

select(b, x, y) == IF b THEN x ELSE y

\* range_check(x, n_log): x is the value of an n_log-bit decomposition
range_check(x, n_log) == x \in 0 .. (Pow2(n_log) - 1)

\* variant: the low limb is as wide as the whole value
split_low_high_wide(x, n_log, num_bits) ==
    { lh \in (0 .. (Pow2(num_bits) - 1)) \X (0 .. (Pow2(num_bits - n_log) - 1)) :
        (lh[1] + Pow2(n_log) * lh[2]) % ORDER = x }

\* split_low_high(x, n_log, num_bits): the pairs <<low, high>> of range-checked
\* limbs the gadget accepts for x, low + 2^n_log * high = x in the field
split_low_high(x, n_log, num_bits) ==
    { lh \in (0 .. (Pow2(n_log) - 1)) \X (0 .. (Pow2(num_bits - n_log) - 1)) :
        (lh[1] + Pow2(n_log) * lh[2]) % ORDER = x }

\* random_access(access_index, v): the values the lookup accepts; none when the
\* index has no decomposition into log2(Len(v)) bits
random_access(access_index, v) ==
    IF access_index \in 0 .. (Len(v) - 1) THEN { v[access_index + 1] } ELSE {}

\* Vec::resize(new_len, value)
resize(v, new_len, value) ==
    IF new_len <= Len(v) THEN SubSeq(v, 1, new_len)
    ELSE v \o [i \in 1 .. (new_len - Len(v)) |-> value]

\* ------------------------------------------------- static_size_product.rs
\* the loop of build_prod_subcircuit with `left` iterations to go; each
\* iteration multiplies, pushes the product and steps to the next factor
RECURSIVE prod_loop(_, _, _, _)
prod_loop(left, product, next_factor, prod_targets) ==
    IF left = 0
    THEN [product |-> product, next_factor |-> next_factor,
          prod_targets |-> prod_targets]
    ELSE CHOOSE l \in
            { prod_loop(left - 1, p, add(next_factor, ONE),
                        Append(prod_targets, p)) :
                p \in { mul(product, next_factor) } } : TRUE

\* variant: the multiplication after the loop is left out
build_prod_subcircuit_short(first_factor, n_factors) ==
    prod_loop(n_factors - 1, ONE, first_factor, << ONE >>).prod_targets

build_prod_subcircuit(first_factor, n_factors) ==
    CHOOSE prod_targets \in
        { Append(l.prod_targets, mul(l.product, l.next_factor)) :
            l \in { prod_loop(n_factors - 1, ONE, first_factor, << ONE >>) } } :
        TRUE

\* ConsecutiveProduct::new(..).clone_product_targets() on base value b
clone_product_targets(first_factor, n_factors) ==
    build_prod_subcircuit(first_factor, n_factors)

\* ------------------------------------------------ dynamic_size_product.rs
\* A target of the builder, named after the variable that holds it; i numbers
\* the elements of a hash or of a cap.
Target(name, i) == [name |-> name, i |-> i]

num_cap_elements == Pow2(CapHeight)

\* variant: nothing is subtracted
remaining_factors_after_chunk_kept(remaining_factors_before_chunk, chunk_size_multiple) ==
    select(is_equal(chunk_size_multiple, ZERO), ZERO, remaining_factors_before_chunk)

\* variant: the subtraction is not clamped
remaining_factors_after_chunk_unclamped(remaining_factors_before_chunk, chunk_size_multiple) ==
    sub(remaining_factors_before_chunk, from_canonical_usize(CHUNK_SIZE))

\* the arithmetic of one chunk on the free targets n_factors,
\* remaining_factors_before_chunk, first_chunk_factor, product_before_chunk
remaining_factors_after_chunk(remaining_factors_before_chunk, chunk_size_multiple) ==
    LET no_more_resursion_needed == is_equal(chunk_size_multiple, ZERO)
        s == sub(remaining_factors_before_chunk, from_canonical_usize(CHUNK_SIZE))
    IN  select(no_more_resursion_needed, ZERO, s)

number_of_chunk_factors(remaining_factors_before_chunk, remaining_factors_after) ==
    sub(remaining_factors_before_chunk, remaining_factors_after)

\* the values product_after_chunk may take (none when the lookup is unsatisfiable)
product_after_chunk(product_before_chunk, first_chunk_factor, n_chunk_factors) ==
    UNION {
        { mul(product_before_chunk, chunk_product) :
            chunk_product \in
                random_access(n_chunk_factors, cumulated_product_targets) } :
        cumulated_product_targets \in
            { resize(clone_product_targets(first_chunk_factor, CHUNK_SIZE),
                     2 * CHUNK_SIZE, ZERO) } }

\* variant: a whole chunk is always added
first_factor_after_chunk_whole(first_chunk_factor, n_chunk_factors) ==
    add(first_chunk_factor, from_canonical_usize(CHUNK_SIZE))

first_factor_after_chunk(first_chunk_factor, n_chunk_factors) ==
    add(first_chunk_factor, n_chunk_factors)

is_base_case(n_factors, remaining_factors_before_chunk) ==
    is_equal(n_factors, remaining_factors_before_chunk)

\* the value of or(is_not_base_case, initial_product_equal_one)
initial_product_or(is_not_base_case, product_before_chunk) ==
    is_not_base_case \/ is_equal(product_before_chunk, ONE)

\* The assertions the builder adds on that value: the BoolTarget `or` returns is
\* dropped, no assert or connect follows it.
base_case_assertion(or_value) == TRUE

\* every assignment of the chunk's wires that satisfies the gates of lines
\* 241-305, for given values of the four free targets
chunk_wires(n_factors, remaining_factors_before_chunk, first_chunk_factor, product_before_chunk) ==
    IF ~range_check(remaining_factors_before_chunk, MAX_N_FACTORS_BITS) THEN {}
    ELSE UNION {
      LET chunk_size_multiple == lh[2]
          after == remaining_factors_after_chunk(remaining_factors_before_chunk,
                                                 chunk_size_multiple)
          count == number_of_chunk_factors(remaining_factors_before_chunk, after)
          base == is_base_case(n_factors, remaining_factors_before_chunk)
      IN  { [n_factors |-> n_factors,
             remaining_factors_before_chunk |-> remaining_factors_before_chunk,
             remaining_factors_after_chunk |-> after,
             first_chunk_factor |-> first_chunk_factor,
             first_factor_after_chunk |->
                 first_factor_after_chunk(first_chunk_factor, count),
             product_before_chunk |-> product_before_chunk,
             product_after_chunk |-> pa,
             chunk_size_multiple |-> chunk_size_multiple,
             number_of_chunk_factors |-> count,
             is_base_case |-> base] :
            pa \in { x \in product_after_chunk(product_before_chunk,
                                               first_chunk_factor, count) :
                       base_case_assertion(
                           initial_product_or(~base, product_before_chunk)) } }
      : lh \in split_low_high(remaining_factors_before_chunk, CHUNK_SIZE_LOG,
                              MAX_N_FACTORS_BITS) }

\* variant: the two remaining-factor targets change places
public_inputs_vector_swapped ==
    << Target("n_factors", 0),
       Target("remaining_factors_after_chunk", 0),
       Target("remaining_factors_before_chunk", 0),
       Target("first_chunk_factor", 0),
       Target("first_factor_after_chunk", 0),
       Target("product_before_chunk", 0),
       Target("product_after_chunk", 0) >>

\* the vector registered in one go, in serialization order
public_inputs_vector ==
    << Target("n_factors", 0),
       Target("remaining_factors_before_chunk", 0),
       Target("remaining_factors_after_chunk", 0),
       Target("first_chunk_factor", 0),
       Target("first_factor_after_chunk", 0),
       Target("product_before_chunk", 0),
       Target("product_after_chunk", 0) >>

\* position (from 0) of the first entry equal to target
find_public_input_idx(vector, target) ==
    (CHOOSE i \in 1 .. Len(vector) :
        /\ vector[i] = target
        /\ \A j \in 1 .. (i - 1) : vector[j] # target) - 1

\* the targets holding the verifier data: the 4 elements of circuit_digest, then
\* the 4 elements of each of the caps of constants_sigmas_cap
verifier_data_targets ==
    [k \in 1 .. (4 + 4 * num_cap_elements) |->
        IF k <= 4 THEN Target("circuit_digest", k - 1)
        ELSE Target("constants_sigmas_cap", k - 5)]

\* variant: first_chunk_factor is connected to the inner first_chunk_factor
connected_pairs_same_factor ==
    << << "remaining_factors_before_chunk", "remaining_factors_after_chunk" >>,
       << "first_chunk_factor", "first_chunk_factor" >>,
       << "product_before_chunk", "product_after_chunk" >>,
       << "n_factors", "n_factors" >> >>

\* the pairs (outer_target, inner_target) connected across the recursive link
connected_pairs ==
    << << "remaining_factors_before_chunk", "remaining_factors_after_chunk" >>,
       << "first_chunk_factor", "first_factor_after_chunk" >>,
       << "product_before_chunk", "product_after_chunk" >>,
       << "n_factors", "n_factors" >> >>

\* the public input of the cyclic proof connected to outer_target
find_inner_public_input(public_inputs, outer_target) ==
    LET pair == CHOOSE k \in 1 .. Len(connected_pairs) :
                    connected_pairs[k][1] = outer_target
    IN  public_inputs[
            find_public_input_idx(public_inputs_vector,
                                  Target(connected_pairs[pair][2], 0)) + 1]

\* the value a proof publishes for a registered target
public_input_value(wires, target, digest) ==
    IF target.name \in {"circuit_digest", "constants_sigmas_cap"}
    THEN digest
    ELSE wires[target.name]

\* variant: the placeholder has the verifier data only
placeholder_circuit_data_bare ==
    [num_public_inputs |-> 4 + 4 * num_cap_elements]

\* the circuit built at line 332 when remaining_bootstrap_steps = 0: virtual
\* public inputs only
placeholder_circuit_data ==
    LET num_cyclic_proof_public_inputs == 4 + 4 * num_cap_elements
    IN  [num_public_inputs |->
            num_cyclic_proof_public_inputs + Len(public_inputs_vector)]

\* variant: every invocation adds the cyclic verification
build_recursive_product_circuit_unmocked(total_bootstrap_steps, remaining_bootstrap_steps, proof_target_circuit_data) ==
    [remaining_bootstrap_steps |-> remaining_bootstrap_steps,
     public_inputs |-> public_inputs_vector \o verifier_data_targets,
     num_public_inputs |-> Len(public_inputs_vector \o verifier_data_targets),
     verification |-> "cyclic",
     proof_target_shape |->
        IF remaining_bootstrap_steps = 0
        THEN "placeholder" ELSE "recursive_circuit_data",
     cyclic_proof_target_len |-> proof_target_circuit_data.num_public_inputs,
     digest |-> from_canonical_usize(remaining_bootstrap_steps + 1),
     remaining_factors_public_input_idx |->
        find_public_input_idx(public_inputs_vector,
                              Target("remaining_factors_after_chunk", 0)),
     n_factors_public_input_idx |->
        find_public_input_idx(public_inputs_vector, Target("n_factors", 0)),
     product_after_chunk_public_input_idx |->
        find_public_input_idx(public_inputs_vector,
                              Target("product_after_chunk", 0)),
     first_factor_after_chunk_public_input_idx |->
        find_public_input_idx(public_inputs_vector,
                              Target("first_factor_after_chunk", 0))]

\* the data one invocation of build_recursive_product_circuit returns, given the
\* circuit whose shape its cyclic proof target takes
build_recursive_product_circuit(total_bootstrap_steps, remaining_bootstrap_steps, proof_target_circuit_data) ==
    [remaining_bootstrap_steps |-> remaining_bootstrap_steps,
     public_inputs |-> public_inputs_vector \o verifier_data_targets,
     num_public_inputs |-> Len(public_inputs_vector \o verifier_data_targets),
     verification |->
        IF total_bootstrap_steps # remaining_bootstrap_steps
        THEN "mock" ELSE "cyclic",
     proof_target_shape |->
        IF remaining_bootstrap_steps = 0
        THEN "placeholder" ELSE "recursive_circuit_data",
     cyclic_proof_target_len |-> proof_target_circuit_data.num_public_inputs,
     digest |-> from_canonical_usize(remaining_bootstrap_steps + 1),
     remaining_factors_public_input_idx |->
        find_public_input_idx(public_inputs_vector,
                              Target("remaining_factors_after_chunk", 0)),
     n_factors_public_input_idx |->
        find_public_input_idx(public_inputs_vector, Target("n_factors", 0)),
     product_after_chunk_public_input_idx |->
        find_public_input_idx(public_inputs_vector,
                              Target("product_after_chunk", 0)),
     first_factor_after_chunk_public_input_idx |->
        find_public_input_idx(public_inputs_vector,
                              Target("first_factor_after_chunk", 0))]

\* VerifierCircuitTarget::from_slice: the last 4 + 4 * cap_len public inputs, or
\* an error on a shorter slice
from_slice(slice) ==
    LET cap_len == num_cap_elements
        len == Len(slice)
    IN  IF ~(len >= 4 + 4 * cap_len) THEN [ok |-> FALSE, elements |-> << >>]
        ELSE [ok |-> TRUE,
              elements |-> [k \in 1 .. (4 + 4 * cap_len) |->
                               slice[len - 4 - 4 * cap_len + k]]]

\* cyclic_base_proof: zero public inputs, but for the entries of the map (a later
\* pair of the same index wins) and the verifier data at the end
cyclic_base_proof(data, nonzero_public_inputs) ==
    LET pis_len == data.num_public_inputs
        start_vk_pis == pis_len - 4 - 4 * num_cap_elements
        last(i) == CHOOSE k \in 1 .. Len(nonzero_public_inputs) :
                     /\ nonzero_public_inputs[k][1] = i
                     /\ \A j \in (k + 1) .. Len(nonzero_public_inputs) :
                            nonzero_public_inputs[j][1] # i
    IN  [circuit |-> "dummy_circuit",
         public_inputs |->
            [i \in 1 .. pis_len |->
                IF i - 1 >= start_vk_pis THEN data.digest
                ELSE IF \E k \in 1 .. Len(nonzero_public_inputs) :
                            nonzero_public_inputs[k][1] = i - 1
                     THEN nonzero_public_inputs[last(i - 1)][2]
                     ELSE ZERO]]

\* variant: the cyclic proof is never verified
recursive_circuit_prove_unverified(data, n_factors_value, first_factor_value, cyclic_proof, cyclic_proof_verifies) ==
    IF Len(cyclic_proof.public_inputs) # data.cyclic_proof_target_len THEN {}
    ELSE
    LET pis == cyclic_proof.public_inputs
        n == find_inner_public_input(pis, "n_factors")
        rb == find_inner_public_input(pis, "remaining_factors_before_chunk")
        ff == find_inner_public_input(pis, "first_chunk_factor")
        pb == find_inner_public_input(pis, "product_before_chunk")
        inner_verifier_data == from_slice(pis)
    IN  { [wires |-> w,
           cyclic_proof |-> cyclic_proof,
           proof |-> [circuit |-> "recursive_circuit_data",
                      public_inputs |->
                         [i \in 1 .. data.num_public_inputs |->
                             public_input_value(w, data.public_inputs[i],
                                                data.digest)]]] :
          w \in { x \in chunk_wires(n, rb, ff, pb) :
                    /\ n_factors_value \in {None, n}
                    /\ first_factor_value \in {None, ff}
                    /\ inner_verifier_data.ok
                    /\ \A k \in 1 .. Len(inner_verifier_data.elements) :
                          inner_verifier_data.elements[k] = data.digest
                    /\ TRUE } }

\* recursive_circuit_data.prove(witness): the proofs the circuit yields for a
\* witness that sets n_factors_target and first_chunk_factor_target (or leaves
\* them unset) and the cyclic proof target; none when no assignment satisfies
\* the circuit.  cyclic_proof_verifies: the cyclic proof is a proof of this
\* circuit.  The verifier data among the public inputs of the cyclic proof are
\* connected to those of the enclosing proof, which the compression circuit
\* connects to the constant verifier data of this circuit: only proofs carrying
\* this circuit's digest are kept.
recursive_circuit_prove(data, n_factors_value, first_factor_value, cyclic_proof, cyclic_proof_verifies) ==
    IF Len(cyclic_proof.public_inputs) # data.cyclic_proof_target_len THEN {}
    ELSE
    LET pis == cyclic_proof.public_inputs
        n == find_inner_public_input(pis, "n_factors")
        rb == find_inner_public_input(pis, "remaining_factors_before_chunk")
        ff == find_inner_public_input(pis, "first_chunk_factor")
        pb == find_inner_public_input(pis, "product_before_chunk")
        inner_verifier_data == from_slice(pis)
    IN  { [wires |-> w,
           cyclic_proof |-> cyclic_proof,
           proof |-> [circuit |-> "recursive_circuit_data",
                      public_inputs |->
                         [i \in 1 .. data.num_public_inputs |->
                             public_input_value(w, data.public_inputs[i],
                                                data.digest)]]] :
          w \in { x \in chunk_wires(n, rb, ff, pb) :
                    /\ n_factors_value \in {None, n}
                    /\ first_factor_value \in {None, ff}
                    /\ inner_verifier_data.ok
                    /\ \A k \in 1 .. Len(inner_verifier_data.elements) :
                          inner_verifier_data.elements[k] = data.digest
                    /\ (~x.is_base_case => cyclic_proof_verifies) } }

\* variant: the remaining-factor counter is registered in place of n_factors
product_circuit_data_constructor_remaining(data) ==
    [initialized |-> TRUE,
     inner_digest |-> data.digest,
     proof_target_len |-> data.num_public_inputs,
     public_inputs |-> << data.remaining_factors_public_input_idx,
                          data.product_after_chunk_public_input_idx >>]

\* product_circuit_data_constructor: the compression circuit over the chunk
\* circuit `data`
product_circuit_data_constructor(data) ==
    [initialized |-> TRUE,
     inner_digest |-> data.digest,
     proof_target_len |-> data.num_public_inputs,
     public_inputs |-> << data.n_factors_public_input_idx,
                          data.product_after_chunk_public_input_idx >>]

\* product_circuit.prove(witness) on a witness holding the chunk proof
product_circuit_prove(product_circuit, proof, proof_verifies) ==
    LET public_input_inner_verifier == from_slice(proof.public_inputs)
    IN  IF /\ Len(proof.public_inputs) = product_circuit.proof_target_len
           /\ proof_verifies
           /\ public_input_inner_verifier.ok
           /\ \A k \in 1 .. Len(public_input_inner_verifier.elements) :
                 public_input_inner_verifier.elements[k] =
                     product_circuit.inner_digest
        THEN { [circuit |-> "product_circuit",
                public_inputs |->
                   [i \in 1 .. Len(product_circuit.public_inputs) |->
                       proof.public_inputs[product_circuit.public_inputs[i] + 1]]] }
        ELSE {}

\* ------------------------------------------------ permutation/swap_schedule.rs
\* A slice of usize is a sequence; the indices the code uses are 0-based and
\* are kept as they are, so the item of index i is s[i + 1].
at(slice, i) == slice[i + 1]

\* <[usize]>::swap
swap(slice, i, j) ==
    [slice EXCEPT ![i + 1] = slice[j + 1], ![j + 1] = slice[i + 1]]

\* the vector (0..n_objects)
identity_permutation(n_objects) == [k \in 1 .. n_objects |-> k - 1]

\* the two nested loops of BubbleSortSwapSchedule, lines 44-59: i runs down from
\* n_objects - 1, j runs up to i
RECURSIVE bubble_sort_loops(_, _, _, _)
bubble_sort_loops(permutation, bubble_sort_schedule, i, j) ==
    IF i < 0
    THEN [permutation |-> permutation, schedule |-> bubble_sort_schedule]
    ELSE IF j >= i
    THEN bubble_sort_loops(permutation, bubble_sort_schedule, i - 1, 0)
    ELSE IF at(permutation, j) > at(permutation, j + 1)
    THEN bubble_sort_loops(swap(permutation, j, j + 1),
                           Append(bubble_sort_schedule, << TRUE, j, j + 1 >>),
                           i, j + 1)
    ELSE bubble_sort_loops(permutation,
                           Append(bubble_sort_schedule, << FALSE, j, j + 1 >>),
                           i, j + 1)

\* BubbleSortSwapSchedule::permutation_to_swap_schedule: the triples it returns
\* and the slice as it leaves it
BubbleSortSwapSchedule(permutation) ==
    IF Len(permutation) < 2
    THEN [permutation |-> permutation, schedule |-> << >>]
    ELSE bubble_sort_loops(permutation, << >>, Len(permutation) - 1, 0)

\* the map |(_selector, idx1, idx2)| (idx1, idx2) of get_swap_sequence
drop_selectors(schedule) ==
    [k \in 1 .. Len(schedule) |-> << schedule[k][2], schedule[k][3] >>]

\* gate/mod.rs imports bubblesort_schedule from the permutation module: the
\* swap sequence of the bubble sort schedule on n_objects items
bubblesort_schedule(n_objects) ==
    drop_selectors(BubbleSortSwapSchedule(identity_permutation(n_objects)).schedule)

\* a call that returns normally leaves the slice it was handed and the triples
\* it produced; a call that indexes a slice out of its bounds panics
Returned(permutation, out) == [panic |-> FALSE, permutation |-> permutation, out |-> out]

Panicked == [panic |-> TRUE, permutation |-> << >>, out |-> << >>]

\* variant: any item of part1 that belongs to part2 is taken, whatever the item
\* of part2 of the same index
RECURSIVE search_loop_any(_, _, _, _, _, _)
search_loop_any(part1, part2, prepare_part1, idx1, idx2, part2_offset) ==
    IF idx1 >= Len(part1)
    THEN [panic |-> TRUE, part1 |-> part1, prepare_part1 |-> prepare_part1,
          idx1 |-> idx1]
    ELSE IF at(part1, idx1) >= part2_offset
    THEN [panic |-> FALSE,
          part1 |-> swap(part1, idx1, idx2),
          prepare_part1 |-> [prepare_part1 EXCEPT ![idx1 + 1] = idx2,
                                                  ![idx2 + 1] = idx1],
          idx1 |-> idx1 + 1]
    ELSE search_loop_any(part1, part2, prepare_part1, idx1 + 1, idx2, part2_offset)

\* the search of lines 115-140 for an item of part1 to exchange part1[idx2]
\* with: idx1 only grows, and part1[idx1] past the end of part1 panics
RECURSIVE search_loop(_, _, _, _, _, _)
search_loop(part1, part2, prepare_part1, idx1, idx2, part2_offset) ==
    IF idx1 >= Len(part1)
    THEN [panic |-> TRUE, part1 |-> part1, prepare_part1 |-> prepare_part1,
          idx1 |-> idx1]
    ELSE IF /\ at(part1, idx1) >= part2_offset
            /\ (idx1 = Len(part2) \/ at(part2, idx1) >= part2_offset)
    THEN [panic |-> FALSE,
          part1 |-> swap(part1, idx1, idx2),
          prepare_part1 |-> [prepare_part1 EXCEPT ![idx1 + 1] = idx2,
                                                  ![idx2 + 1] = idx1],
          idx1 |-> idx1 + 1]
    ELSE search_loop(part1, part2, prepare_part1, idx1 + 1, idx2, part2_offset)

\* the loop of lines 108-142 from idx2 on
RECURSIVE prepare_loop(_, _, _, _, _, _)
prepare_loop(part1, part2, prepare_part1, idx1, idx2, part2_offset) ==
    IF idx2 >= Len(part2)
    THEN [panic |-> FALSE, part1 |-> part1, prepare_part1 |-> prepare_part1,
          idx1 |-> idx1]
    ELSE IF at(part2, idx2) < part2_offset /\ at(part1, idx2) < part2_offset
    THEN LET found == search_loop(part1, part2, prepare_part1, idx1, idx2,
                                  part2_offset)
         IN  IF found.panic THEN found
             ELSE prepare_loop(found.part1, part2, found.prepare_part1,
                               found.idx1, idx2 + 1, part2_offset)
    ELSE prepare_loop(part1, part2, prepare_part1, idx1, idx2 + 1, part2_offset)

\* lines 150-153: the schedule of prepare_part1 moved to the offset of part1
add_offset(schedule, offset) ==
    [k \in 1 .. Len(schedule) |->
        << schedule[k][1], schedule[k][2] + offset, schedule[k][3] + offset >>]

\* the loop of lines 160-174 from idx on: the items of part1 and part2 of the
\* same relative index are exchanged when the one of part2 belongs to part1
RECURSIVE exchange_loop(_, _, _, _, _, _)
exchange_loop(part1, part2, out, idx, offset, part2_offset) ==
    IF idx >= Len(part2) THEN [part1 |-> part1, part2 |-> part2, out |-> out]
    ELSE IF at(part2, idx) < part2_offset
    THEN exchange_loop([part1 EXCEPT ![idx + 1] = at(part2, idx)],
                       [part2 EXCEPT ![idx + 1] = at(part1, idx)],
                       Append(out, << TRUE, idx + offset, idx + part2_offset >>),
                       idx + 1, offset, part2_offset)
    ELSE exchange_loop(part1, part2,
                       Append(out, << FALSE, idx + offset, idx + part2_offset >>),
                       idx + 1, offset, part2_offset)

\* lines 71-181
RECURSIVE recursive_permutation_to_2_split_schedule(_, _, _)
recursive_permutation_to_2_split_schedule(permutation, offset, out) ==
    LET len == Len(permutation)
    IN  IF len <= 1 THEN Returned(permutation, out)
        ELSE IF len = 2
        THEN IF at(permutation, 0) > at(permutation, 1)
             THEN Returned(swap(permutation, 0, 1),
                           Append(out, << TRUE, offset, offset + 1 >>))
             ELSE Returned(permutation,
                           Append(out, << FALSE, offset, offset + 1 >>))
        ELSE
        LET split_idx == (len + 1) \div 2
            part2_offset == offset + split_idx
            prepared == prepare_loop(SubSeq(permutation, 1, split_idx),
                                     SubSeq(permutation, split_idx + 1, len),
                                     identity_permutation(split_idx),
                                     0, 0, part2_offset)
            prepare_part1_schedule ==
                recursive_permutation_to_2_split_schedule(prepared.prepare_part1,
                                                          0, << >>)
            exchanged == exchange_loop(prepared.part1,
                                       SubSeq(permutation, split_idx + 1, len),
                                       out \o add_offset(prepare_part1_schedule.out,
                                                         offset),
                                       0, offset, part2_offset)
            of_part1 == recursive_permutation_to_2_split_schedule(exchanged.part1,
                                                                  offset,
                                                                  exchanged.out)
            of_part2 == recursive_permutation_to_2_split_schedule(exchanged.part2,
                                                                  part2_offset,
                                                                  of_part1.out)
        IN  IF prepared.panic THEN Panicked
            ELSE IF prepare_part1_schedule.panic THEN Panicked
            ELSE IF of_part1.panic THEN Panicked
            ELSE IF of_part2.panic THEN Panicked
            ELSE Returned(of_part1.permutation \o of_part2.permutation,
                          of_part2.out)

\* <RecusriveSplitTwoSchedule as SwapSchedule>::permutation_to_swap_schedule
RecusriveSplitTwoSchedule(permutation) ==
    recursive_permutation_to_2_split_schedule(permutation, 0, << >>)

\* the implementors of the trait SwapSchedule
ScheduleTypes == { "BubbleSortSwapSchedule", "RecusriveSplitTwoSchedule" }

\* Self::permutation_to_swap_schedule of the schedule type Self
permutation_to_swap_schedule(Self, permutation) ==
    IF Self = "BubbleSortSwapSchedule"
    THEN LET sorted == BubbleSortSwapSchedule(permutation)
         IN  Returned(sorted.permutation, sorted.schedule)
    ELSE RecusriveSplitTwoSchedule(permutation)

\* SwapSchedule::get_swap_sequence, lines 4-11
get_swap_sequence(Self, n_objects) ==
    drop_selectors(permutation_to_swap_schedule(Self,
                       identity_permutation(n_objects)).out)

\* ------------------------------------------------------ permutation/gate/mod.rs
compute_input_wire(i) == i

compute_selector_wire(n_objects, i) == n_objects + 3 * i

compute_idx1_wire(n_objects, i) == n_objects + 3 * i + 1

compute_idx2_wire(n_objects, i) == n_objects + 3 * i + 2

\* variant: the wire of idx2 is recorded before the wire of idx1
RECURSIVE try_new_loop_reversed(_, _, _, _)
try_new_loop_reversed(n_objects, swap_schedule, output_wires, swap_nr) ==
    IF swap_nr >= Len(swap_schedule) THEN [ok |-> TRUE, output_wires |-> output_wires]
    ELSE LET idx1 == swap_schedule[swap_nr + 1][1]
             idx2 == swap_schedule[swap_nr + 1][2]
         IN  IF n_objects <= idx1 \/ n_objects <= idx2
             THEN [ok |-> FALSE, output_wires |-> << >>]
             ELSE try_new_loop_reversed(n_objects, swap_schedule,
                      [[output_wires
                          EXCEPT ![idx2 + 1] = compute_idx2_wire(n_objects, swap_nr)]
                          EXCEPT ![idx1 + 1] = compute_idx1_wire(n_objects, swap_nr)],
                      swap_nr + 1)

\* the loop of try_new, lines 49-60, from swap number swap_nr on: the output
\* wires, or None at the first swap with an index out of range
RECURSIVE try_new_loop(_, _, _, _)
try_new_loop(n_objects, swap_schedule, output_wires, swap_nr) ==
    IF swap_nr >= Len(swap_schedule) THEN [ok |-> TRUE, output_wires |-> output_wires]
    ELSE LET idx1 == swap_schedule[swap_nr + 1][1]
             idx2 == swap_schedule[swap_nr + 1][2]
         IN  IF n_objects <= idx1 \/ n_objects <= idx2
             THEN [ok |-> FALSE, output_wires |-> << >>]
             ELSE try_new_loop(n_objects, swap_schedule,
                      [[output_wires
                          EXCEPT ![idx1 + 1] = compute_idx1_wire(n_objects, swap_nr)]
                          EXCEPT ![idx2 + 1] = compute_idx2_wire(n_objects, swap_nr)],
                      swap_nr + 1)

\* the gate no call has built
NoGate ==
    [ok |-> FALSE, n_objects |-> 0, swap_schedule |-> << >>,
     output_wires |-> << >>, enforce_boolean_selectors |-> FALSE]

\* PermutationGate::try_new: Ok(gate), or Err(SwapIndexOutOfRange) as NoGate
try_new(n_objects, swap_schedule, enforce_boolean_selectors) ==
    LET wires == try_new_loop(n_objects, swap_schedule,
                     [k \in 1 .. n_objects |-> compute_input_wire(k - 1)], 0)
    IN  IF wires.ok
        THEN [ok |-> TRUE, n_objects |-> n_objects,
              swap_schedule |-> swap_schedule,
              output_wires |-> wires.output_wires,
              enforce_boolean_selectors |-> enforce_boolean_selectors]
        ELSE NoGate

\* ------------------------------- permutation/gate/gate_implementation.rs
\* Write::write_usize writes the value as little-endian bytes, Read::read_usize
\* reads them back; the width of a usize is scaled with USIZE_BYTES
RECURSIVE to_le_bytes(_, _)
to_le_bytes(x, width) ==
    IF width = 0 THEN << >>
    ELSE << x % 256 >> \o to_le_bytes(x \div 256, width - 1)

RECURSIVE from_le_bytes(_)
from_le_bytes(bytes) ==
    IF bytes = << >> THEN 0
    ELSE bytes[1] + 256 * from_le_bytes(Tail(bytes))

\* usize::MAX and isize::MAX
USIZE_MAX == (256 ^ USIZE_BYTES) - 1

ISIZE_MAX == ((256 ^ USIZE_BYTES) \div 2) - 1

write_usize(dst, x) == dst \o to_le_bytes(x, USIZE_BYTES)

write_bool(dst, x) == Append(dst, IF x THEN 1 ELSE 0)

\* the Buffer a deserializer reads: the bytes and the position of the next one
Buffer(bytes) == [bytes |-> bytes, pos |-> 0]

\* Read::read_usize: IoError when fewer than a usize of bytes are left
read_usize(src) ==
    IF Len(src.bytes) - src.pos < USIZE_BYTES
    THEN [ok |-> FALSE, value |-> 0, src |-> src]
    ELSE [ok |-> TRUE,
          value |-> from_le_bytes(SubSeq(src.bytes, src.pos + 1,
                                         src.pos + USIZE_BYTES)),
          src |-> [src EXCEPT !.pos = @ + USIZE_BYTES]]

\* Read::read_bool: one byte, 0 or 1; IoError on any other byte or none left
read_bool(src) ==
    IF Len(src.bytes) - src.pos < 1 \/ src.bytes[src.pos + 1] \notin { 0, 1 }
    THEN [ok |-> FALSE, value |-> FALSE, src |-> src]
    ELSE [ok |-> TRUE, value |-> (src.bytes[src.pos + 1] = 1),
          src |-> [src EXCEPT !.pos = @ + 1]]

\* variant: the loop of serialize writes idx2 before idx1
RECURSIVE write_swap_schedule_swapped(_, _)
write_swap_schedule_swapped(dst, swap_schedule) ==
    IF swap_schedule = << >> THEN dst
    ELSE write_swap_schedule_swapped(
             write_usize(write_usize(dst, Head(swap_schedule)[2]),
                         Head(swap_schedule)[1]),
             Tail(swap_schedule))

\* the loop of serialize, lines 29-32
RECURSIVE write_swap_schedule(_, _)
write_swap_schedule(dst, swap_schedule) ==
    IF swap_schedule = << >> THEN dst
    ELSE write_swap_schedule(
             write_usize(write_usize(dst, Head(swap_schedule)[1]),
                         Head(swap_schedule)[2]),
             Tail(swap_schedule))

\* PermutationGate::serialize, lines 23-35
serialize(dst, gate) ==
    write_bool(
        write_swap_schedule(
            write_usize(write_usize(dst, gate.n_objects),
                        Len(gate.swap_schedule)),
            gate.swap_schedule),
        gate.enforce_boolean_selectors)

\* Vec::with_capacity panics when the capacity in bytes exceeds isize::MAX
capacity_overflow(capacity, element_bytes) ==
    capacity * element_bytes > ISIZE_MAX

\* the loop of deserialize, lines 46-48: the pairs read, or the first IoError
RECURSIVE read_swap_schedule(_, _, _)
read_swap_schedule(src, left, swap_schedule) ==
    IF left = 0 THEN [ok |-> TRUE, value |-> swap_schedule, src |-> src]
    ELSE LET idx1 == read_usize(src)
             idx2 == read_usize(idx1.src)
         IN  IF ~idx1.ok \/ ~idx2.ok
             THEN [ok |-> FALSE, value |-> << >>, src |-> src]
             ELSE read_swap_schedule(idx2.src, left - 1,
                      Append(swap_schedule, << idx1.value, idx2.value >>))

\* PermutationGate::deserialize, lines 39-53: Ok(gate), IoError, or the panic of
\* Vec::with_capacity at line 45 and at line 43 of gate/mod.rs
deserialize(src) ==
    LET n_objects == read_usize(src)
        swap_schedule_len == read_usize(n_objects.src)
    IN  IF ~n_objects.ok \/ ~swap_schedule_len.ok
        THEN [result |-> "IoError", gate |-> NoGate, src |-> src]
        ELSE IF capacity_overflow(swap_schedule_len.value, 2 * USIZE_BYTES)
        THEN [result |-> "panic", gate |-> NoGate, src |-> src]
        ELSE LET swap_schedule ==
                     read_swap_schedule(swap_schedule_len.src,
                                        swap_schedule_len.value, << >>)
                 enforce_boolean_selectors == read_bool(swap_schedule.src)
             IN  IF ~swap_schedule.ok \/ ~enforce_boolean_selectors.ok
                 THEN [result |-> "IoError", gate |-> NoGate, src |-> src]
                 ELSE IF capacity_overflow(n_objects.value, USIZE_BYTES)
                 THEN [result |-> "panic", gate |-> NoGate, src |-> src]
                 ELSE LET gate == try_new(n_objects.value, swap_schedule.value,
                                          enforce_boolean_selectors.value)
                      IN  IF gate.ok
                          THEN [result |-> "Ok", gate |-> gate,
                                src |-> enforce_boolean_selectors.src]
                          ELSE [result |-> "IoError", gate |-> NoGate, src |-> src]

\* Gate::num_wires, lines 90-97
num_wires(gate) == gate.n_objects + 3 * Len(gate.swap_schedule)

\* the loop of eval_unfiltered, lines 122-152, from swap number swap_nr on
RECURSIVE eval_unfiltered_loop(_, _, _, _, _)
eval_unfiltered_loop(gate, local_wires, items_tracker, constraints, swap_nr) ==
    IF swap_nr >= Len(gate.swap_schedule)
    THEN [constraints |-> constraints, items_tracker |-> items_tracker]
    ELSE
    LET idx1 == gate.swap_schedule[swap_nr + 1][1]
        idx2 == gate.swap_schedule[swap_nr + 1][2]
        selector == local_wires[compute_selector_wire(gate.n_objects, swap_nr) + 1]
        new_idx1_wire == compute_idx1_wire(gate.n_objects, swap_nr)
        new_idx2_wire == compute_idx2_wire(gate.n_objects, swap_nr)
        item1 == local_wires[at(items_tracker, idx1) + 1]
        item2 == local_wires[at(items_tracker, idx2) + 1]
        boolean == IF gate.enforce_boolean_selectors
                   THEN << mul(selector, sub(selector, ONE)) >>
                   ELSE << >>
    IN  eval_unfiltered_loop(gate, local_wires,
            [[items_tracker EXCEPT ![idx1 + 1] = new_idx1_wire]
                            EXCEPT ![idx2 + 1] = new_idx2_wire],
            constraints \o boolean \o
                << sub(sub(local_wires[new_idx1_wire + 1],
                           mul(sub(ONE, selector), item1)),
                       mul(selector, item2)),
                   sub(sub(local_wires[new_idx2_wire + 1],
                           mul(selector, item1)),
                       mul(sub(ONE, selector), item2)) >>,
            swap_nr + 1)

\* eval_unfiltered, lines 103-163: the constraints on the wires of a row, and the
\* item tracker the debug assertion compares with output_wires
eval_unfiltered(gate, local_wires) ==
    eval_unfiltered_loop(gate, local_wires,
        [k \in 1 .. gate.n_objects |-> compute_input_wire(k - 1)], << >>, 0)

\* ------------------------------------- permutation/gate/witness_generator.rs
\* PermutationGateWitnessGenerator::serialize, lines 35-38
serialize_generator(dst, witness_generator) ==
    serialize(write_usize(dst, witness_generator.row), witness_generator.gate)

\* PermutationGateWitnessGenerator::deserialize, lines 40-48
deserialize_generator(src) ==
    LET row == read_usize(src)
    IN  IF ~row.ok THEN [result |-> "IoError", row |-> 0, gate |-> NoGate]
        ELSE LET gate == deserialize(row.src)
             IN  [result |-> gate.result,
                  row |-> IF gate.result = "Ok" THEN row.value ELSE 0,
                  gate |-> gate.gate]

\* the loop of run_once, lines 86-106, from swap number swap_nr on: the values of
\* the items after the swaps whose selector is not zero
RECURSIVE run_once_loop(_, _, _, _)
run_once_loop(swap_schedule, selectors, item_values, swap_nr) ==
    IF swap_nr >= Len(swap_schedule) THEN item_values
    ELSE IF selectors[swap_nr + 1] # ZERO
    THEN run_once_loop(swap_schedule, selectors,
                       swap(item_values, swap_schedule[swap_nr + 1][1],
                                         swap_schedule[swap_nr + 1][2]),
                       swap_nr + 1)
    ELSE run_once_loop(swap_schedule, selectors, item_values, swap_nr + 1)

\* PermutationGateWitnessGenerator::run_once, lines 63-111: the values it sets on
\* the output wires, by index, from the values of the input and selector wires
run_once(swap_schedule, inputs, selectors) ==
    run_once_loop(swap_schedule, selectors, inputs, 0)

\* the selectors of gate/tests.rs lines 132-136, one field element per triple
selector_values(schedule) ==
    [k \in 1 .. Len(schedule) |-> IF schedule[k][1] THEN ONE ELSE ZERO]

\* The wires of a row are numbered from 0; a set of wire values is a sequence
\* whose item of index w is the value of wire w, None when it has none yet.
\* out_buffer.set_target, applied to the witness when the generator has run:
\* a wire that has a value keeps it, and a different value is a conflict
set_target(local_wires, wire, value) ==
    IF local_wires.wires[wire + 1] = None
    THEN [local_wires EXCEPT !.wires[wire + 1] = value]
    ELSE IF local_wires.wires[wire + 1] = value THEN local_wires
    ELSE [local_wires EXCEPT !.conflict = TRUE]

\* variant: the difference is taken the other way round
new_item_value_reversed(item_values, idx1, idx2, selector) ==
    add(at(item_values, idx1),
        mul(selector, sub(at(item_values, idx1), at(item_values, idx2))))

\* lines 91-98: item_values[idx1] + selector * (item_values[idx2] - item_values[idx1])
new_item_value(item_values, idx1, idx2, selector) ==
    add(at(item_values, idx1),
        mul(selector, sub(at(item_values, idx2), at(item_values, idx1))))

\* the loop of run_once, lines 86-106, from swap number swap_nr on, with the
\* writes to out_buffer applied to the wires as they are made
RECURSIVE run_once_swaps(_, _, _, _, _)
run_once_swaps(gate, local_wires, items_tracker, item_values, swap_nr) ==
    IF swap_nr >= Len(gate.swap_schedule)
    THEN [local_wires |-> local_wires, items_tracker |-> items_tracker,
          item_values |-> item_values]
    ELSE
    LET idx1 == gate.swap_schedule[swap_nr + 1][1]
        idx2 == gate.swap_schedule[swap_nr + 1][2]
        selector ==
            local_wires.wires[compute_selector_wire(gate.n_objects, swap_nr) + 1]
        new_item1_target == compute_idx1_wire(gate.n_objects, swap_nr)
        new_item2_target == compute_idx2_wire(gate.n_objects, swap_nr)
        written ==
            set_target(set_target(local_wires, new_item1_target,
                                  new_item_value(item_values, idx1, idx2, selector)),
                       new_item2_target,
                       new_item_value(item_values, idx2, idx1, selector))
    IN  run_once_swaps(gate, written,
                       [[items_tracker EXCEPT ![idx1 + 1] = new_item1_target]
                                       EXCEPT ![idx2 + 1] = new_item2_target],
                       IF selector # ZERO THEN swap(item_values, idx1, idx2)
                       ELSE item_values,
                       swap_nr + 1)

\* the loop of lines 108-110 from index idx on: the values of the items go to
\* the output wires
RECURSIVE run_once_outputs(_, _, _, _)
run_once_outputs(gate, local_wires, item_values, idx) ==
    IF idx >= Len(item_values) THEN local_wires
    ELSE run_once_outputs(gate,
                          set_target(local_wires, at(gate.output_wires, idx),
                                     at(item_values, idx)),
                          item_values, idx + 1)

\* run_once on a witness that holds the input and selector wires: the wires
\* once every write is applied, the item tracker and the item values it ends with
run_once_on(gate, witness) ==
    LET swapped ==
            run_once_swaps(gate, [wires |-> witness, conflict |-> FALSE],
                [k \in 1 .. gate.n_objects |-> compute_input_wire(k - 1)],
                [k \in 1 .. gate.n_objects |-> witness[compute_input_wire(k - 1) + 1]],
                0)
        written == run_once_outputs(gate, swapped.local_wires,
                                    swapped.item_values, 0)
    IN  [wires |-> written.wires, conflict |-> written.conflict,
         items_tracker |-> swapped.items_tracker,
         item_values |-> swapped.item_values]

\* ------------------------------------------ permutation/permutation_utilities.rs
\* the loop of inverse_permutation, lines 142-144, from index i on
RECURSIVE inverse_permutation_loop(_, _, _)
inverse_permutation_loop(permutation, output_buffer, i) ==
    IF i >= Len(permutation) THEN output_buffer
    ELSE inverse_permutation_loop(permutation,
                                  [output_buffer EXCEPT ![at(permutation, i) + 1] = i],
                                  i + 1)

inverse_permutation(permutation, output_buffer) ==
    inverse_permutation_loop(permutation, output_buffer, 0)

\* Option<Vec<usize>>
NoVec == [some |-> FALSE, v |-> << >>]

SomeVec(v) == [some |-> TRUE, v |-> v]

\* KnuthL::new, lines 44-66: the field `permutation` of the iterator
KnuthL(iterator_output) ==
    IF Len(iterator_output) = 0 THEN [permutation |-> NoVec]
    ELSE [permutation |-> SomeVec(identity_permutation(Len(iterator_output)))]

\* n_objects - 2 of line 113, in usize: below zero it panics in a build with
\* overflow checks and wraps around in a build without them
upper_j(n_objects, overflow_checks) ==
    IF n_objects >= 2 THEN [panic |-> FALSE, value |-> n_objects - 2]
    ELSE IF overflow_checks THEN [panic |-> TRUE, value |-> 0]
    ELSE [panic |-> FALSE, value |-> (n_objects - 2) % (USIZE_MAX + 1)]

\* (0..=upper).rev().find(|&j| array[j] <= array[j + 1]) of lines 113-115, from
\* j downwards: an index past the end of array panics
RECURSIVE find_j(_, _)
find_j(array, j) ==
    IF j < 0 THEN [panic |-> FALSE, some |-> FALSE, value |-> 0]
    ELSE IF j >= Len(array) \/ j + 1 >= Len(array)
    THEN [panic |-> TRUE, some |-> FALSE, value |-> 0]
    ELSE IF at(array, j) <= at(array, j + 1)
    THEN [panic |-> FALSE, some |-> TRUE, value |-> j]
    ELSE find_j(array, j - 1)

\* (j + 1..=n_objects - 1).rev().find(|&l| array[j] <= array[l]) of line 127,
\* from l downwards
RECURSIVE find_l(_, _, _)
find_l(array, j, l) ==
    IF l < j + 1 THEN [some |-> FALSE, value |-> 0]
    ELSE IF at(array, j) <= at(array, l) THEN [some |-> TRUE, value |-> l]
    ELSE find_l(array, j, l - 1)

\* array[j + 1..].reverse() of line 130
reverse_from(array, first) ==
    [k \in 1 .. Len(array) |->
        IF k - 1 < first THEN array[k] ELSE array[Len(array) + first + 1 - k]]

\* lines 125-130: the exchange of the items j and l and the reversal of the tail
advance(array, j) ==
    LET l == find_l(array, j, Len(array) - 1)
    IN  IF ~l.some THEN [panic |-> TRUE, array |-> array]
        ELSE [panic |-> FALSE,
              array |-> reverse_from(swap(array, j, l.value), j + 1)]

\* KnuthL::next, lines 71-133, on an iterator whose buffer is the slice `output`,
\* mutably borrowed or not: what it returns ("None", "Err", "Ok" or a panic), the
\* iterator and the buffer it leaves, and whether the borrow it took is returned
next(self, output, borrowed, overflow_checks) ==
    IF ~self.permutation.some
    THEN [item |-> "None", self |-> self, output |-> output, borrowed |-> borrowed]
    ELSE IF borrowed
    THEN [item |-> "Err", self |-> self, output |-> output, borrowed |-> borrowed]
    ELSE
    LET array == self.permutation.v
        upper == upper_j(Len(array), overflow_checks)
        j == find_j(array, upper.value)
        advanced == advance(array, j.value)
    IN  IF upper.panic \/ j.panic
        THEN [item |-> "panic", self |-> self, output |-> array, borrowed |-> FALSE]
        ELSE IF ~j.some
        THEN [item |-> "Ok", self |-> [permutation |-> NoVec], output |-> array,
              borrowed |-> TRUE]
        ELSE IF advanced.panic
        THEN [item |-> "panic", self |-> self, output |-> array, borrowed |-> FALSE]
        ELSE [item |-> "Ok", self |-> [permutation |-> SomeVec(advanced.array)],
              output |-> array, borrowed |-> TRUE]

\* ---------------------------------------------------------------- state
VARIABLES
    call_stack,             \* remaining_bootstrap_steps of the active invocations
                            \* of build_recursive_product_circuit, outermost first
    returned,               \* the data the finished invocations returned, in order
    RECURSIVE_PROD_CIRCUIT, \* the OnceLock of recursive_product_circuit
    PRODUCT_CIRCUIT_DATA,   \* the OnceLock of product_circuit_data
    pc,                     \* position of the caller in prove
    args,                   \* the arguments of the call of prove
    proof,                  \* the local `proof` of prove
    chunks,                 \* every chunk proof generated, with its wires and the
                            \* cyclic proof it embeds
    compressed,             \* the chunk proofs handed to the compression circuit
    final,                  \* the proof prove returned
    verified,               \* the result of verify on it
    threads,                \* per thread: its position and its locals
    CACHED_GATES,           \* the BTreeMap behind the Mutex of gate/mod.rs
    cache_lock,             \* the thread holding that Mutex, or NoThread
    constructions,          \* how many times each lazily built definition was built
    observed,               \* the values the accessors of each definition returned
    runs,                   \* the finished calls of prove: arguments and result
    verdicts,               \* the finished calls of verify, in order: argument,
                            \* result, and whether the call ran the constructor
                            \* of the compression circuit
    generator,              \* a PermutationGateWitnessGenerator: its row and gate
    buffer,                 \* the bytes written by serialize, read by deserialize
    deserialized,           \* what deserialize returned
    sliced,                 \* a call of from_slice: its argument and what it returned
    evaluated,              \* a run of the generator of the gate on a witness, and
                            \* the constraints of the gate on the wires it leaves
    consecutive_product,    \* a ConsecutiveProduct, its targets named by their values
    queried,                \* a call of its getters: argument and results
    scheduled,              \* a call of permutation_to_swap_schedule: the schedule
                            \* type, the permutation handed in and what came back
    applied,                \* a run of the gate's generator on that schedule: the
                            \* items, the inverse permutation and the outputs
    knuth_l,                \* a KnuthL iterator
    iterator_output,        \* the buffer behind its RefCell, and whether a RefMut
                            \* to it is alive
    item,                   \* what the last call of next returned
    yielded                 \* the permutations read from the items, in order

driver_vars == << call_stack, returned, RECURSIVE_PROD_CIRCUIT, PRODUCT_CIRCUIT_DATA,
                  pc, args, proof, chunks, compressed, final, verified >>

thread_vars == << threads, CACHED_GATES, cache_lock, constructions, observed,
                  runs, verdicts >>

gate_vars == << generator, buffer, deserialized, sliced, evaluated >>

product_vars == << consecutive_product, queried >>

schedule_vars == << scheduled, applied >>

iterator_vars == << knuth_l, iterator_output, item, yielded >>

permutation_vars == << schedule_vars, iterator_vars >>

utility_vars == << gate_vars, product_vars, permutation_vars >>

vars == << driver_vars, thread_vars, utility_vars >>

Uninit == [initialized |-> FALSE]

NoProof == [circuit |-> "none", public_inputs |-> << >>]

NoArgs == [n_factors |-> None, first_factor |-> None, starting_product |-> None]

\* inputs of prove: every count in range, the first and the last one out of
\* range that are canonical field elements, and a count past the field order
NFactorsInputs ==
    (0 .. MaxN) \cup { Pow2(MAX_N_FACTORS_BITS), ORDER - 1, ORDER + 3 }

FirstFactorInputs == { ZERO, ONE, 42 % ORDER, ORDER - 1 }

StartingProductInputs == { ONE, 2 % ORDER }

\* the threads of the process
Threads == { 1, 2 }

NoThread == 0

\* a ProofWithPublicInputs handed to verify: the proof part, named by the proof
\* it was generated as, and the public inputs it is presented with
NoPresented == [proof |-> NoProof, public_inputs |-> << >>]

\* the lazily built definitions: the two OnceLock circuits and the cached gates
ChunkCircuit == << "ChunkCircuit", 0, FALSE >>

CompressionCircuit == << "CompressionCircuit", 0, FALSE >>

CachedGate(n_objects, enforce_boolean_selectors) ==
    << "PermutationGate", n_objects, enforce_boolean_selectors >>

\* the sizes general_permutation_gate is called with
GateSizes == { 0, 3 }

GateKeys == GateSizes \X BOOLEAN

Definitions ==
    { ChunkCircuit, CompressionCircuit } \cup
    { CachedGate(key[1], key[2]) : key \in GateKeys }

\* the generator no call has built
NoGenerator == [row |-> 0, gate |-> NoGate]

\* the buffer nothing was written to
EmptyBuffer == [of |-> "none", bytes |-> << >>, touched |-> FALSE]

\* deserialize was not called
NotDeserialized == [result |-> "none", row |-> 0, gate |-> NoGate]

\* from_slice was not called
NotSliced == [called |-> FALSE, slice |-> << >>, ok |-> FALSE, elements |-> << >>]

\* no ConsecutiveProduct was built
NoConsecutiveProduct ==
    [n_factors |-> 0, first_factor |-> None, product_targets |-> << >>]

\* its getters were not called
NotQueried ==
    [called |-> FALSE, n_factors |-> 0,
     partial |-> [some |-> FALSE, target |-> None], final |-> None]

\* no run of the generator yet
NotEvaluated ==
    [done |-> FALSE, inputs |-> << >>, selectors |-> << >>, wires |-> << >>,
     conflict |-> FALSE, item_values |-> << >>, run_once_items_tracker |-> << >>,
     items_tracker |-> << >>, constraints |-> << >>]

\* no call of permutation_to_swap_schedule yet
NotScheduled == [of |-> "none", permutation |-> << >>, returned |-> Panicked]

\* no run of the generator yet
NotApplied ==
    [done |-> FALSE, items |-> << >>, inverse_p |-> << >>, outputs |-> << >>]

\* no iterator yet
NoIterator == [constructed |-> FALSE, permutation |-> NoVec]

\* a thread that called nothing yet
IdleThread ==
    [pc |-> "idle", op |-> "none", circuit |-> Uninit, product |-> Uninit,
     args |-> NoArgs, proof |-> NoProof, presented |-> NoPresented,
     key |-> << 0, FALSE >>, constructed |-> FALSE, calls |-> 0]

Init ==
    /\ call_stack = << >>
    /\ returned = << >>
    /\ RECURSIVE_PROD_CIRCUIT = Uninit
    /\ PRODUCT_CIRCUIT_DATA = Uninit
    /\ pc = "start"
    /\ args = NoArgs
    /\ proof = NoProof
    /\ chunks = << >>
    /\ compressed = << >>
    /\ final = NoProof
    /\ verified = "none"
    /\ threads = [t \in Threads |-> IdleThread]
    /\ CACHED_GATES = [key \in GateKeys |-> NoGate]
    /\ cache_lock = NoThread
    /\ constructions = [d \in Definitions |-> 0]
    /\ observed = [d \in Definitions |-> {}]
    /\ runs = {}
    /\ verdicts = << >>
    /\ generator = NoGenerator
    /\ buffer = EmptyBuffer
    /\ deserialized = NotDeserialized
    /\ sliced = NotSliced
    /\ evaluated = NotEvaluated
    /\ consecutive_product = NoConsecutiveProduct
    /\ queried = NotQueried
    /\ scheduled = NotScheduled
    /\ applied = NotApplied
    /\ knuth_l = NoIterator
    /\ iterator_output = [slice |-> << >>, borrowed |-> FALSE]
    /\ item = "none"
    /\ yielded = << >>

\* --------------------------------------------------------------- bootstrap
\* recursive_product_circuit() on the empty OnceLock calls
\* build_recursive_product_circuit(N_BOOTSTRAP_STEPS, N_BOOTSTRAP_STEPS); an
\* invocation with remaining_bootstrap_steps # 0 calls itself with one step less
EnterBuild ==
    /\ RECURSIVE_PROD_CIRCUIT = Uninit
    /\ \/ /\ call_stack = << >>
          /\ call_stack' = << N_BOOTSTRAP_STEPS >>
       \/ /\ call_stack # << >>
          /\ call_stack[Len(call_stack)] # 0
          /\ Len(returned) < call_stack[Len(call_stack)]
          /\ call_stack' = Append(call_stack, call_stack[Len(call_stack)] - 1)
    /\ UNCHANGED << returned, RECURSIVE_PROD_CIRCUIT, PRODUCT_CIRCUIT_DATA, pc,
                    args, proof, chunks, compressed, final, verified >>
    /\ UNCHANGED << thread_vars, utility_vars >>

\* the innermost invocation, holding the shape of its cyclic proof, builds its
\* circuit and returns; the outermost one fills the OnceLock
FinishBuild ==
    /\ call_stack # << >>
    /\ LET remaining_bootstrap_steps == call_stack[Len(call_stack)]
           ready == \/ remaining_bootstrap_steps = 0
                    \/ Len(returned) = remaining_bootstrap_steps
       IN  /\ ready
           /\ LET proof_target_circuit_data ==
                      IF remaining_bootstrap_steps = 0
                      THEN placeholder_circuit_data
                      ELSE returned[Len(returned)]
                  data == build_recursive_product_circuit(
                              N_BOOTSTRAP_STEPS, remaining_bootstrap_steps,
                              proof_target_circuit_data)
              IN  /\ returned' = Append(returned, data)
                  /\ call_stack' = SubSeq(call_stack, 1, Len(call_stack) - 1)
                  /\ RECURSIVE_PROD_CIRCUIT' =
                        IF Len(call_stack) = 1
                        THEN [initialized |-> TRUE, data |-> data]
                        ELSE RECURSIVE_PROD_CIRCUIT
    /\ UNCHANGED << PRODUCT_CIRCUIT_DATA, pc, args, proof, chunks, compressed,
                    final, verified >>
    /\ UNCHANGED << thread_vars, utility_vars >>

\* ------------------------------------------------------------------ driver
\* a proof verifies as a chunk proof when the chunk circuit produced it
chunk_proof_verifies(p) ==
    /\ p.circuit = "recursive_circuit_data"
    /\ \E i \in 1 .. Len(chunks) : chunks[i].proof = p

\* variant: the loop reads the public input one position early
loop_condition_early(data, p) ==
    p.public_inputs[data.remaining_factors_public_input_idx] # ZERO

\* the loop condition of prove
loop_condition(data, p) ==
    p.public_inputs[data.remaining_factors_public_input_idx + 1] # ZERO

\* variant: the base case always starts from the identity
base_case_public_inputs_one(data, n_factors, first_factor, starting_product) ==
    << << data.n_factors_public_input_idx, n_factors >>,
       << data.remaining_factors_public_input_idx, n_factors >>,
       << data.product_after_chunk_public_input_idx, ONE >>,
       << data.first_factor_after_chunk_public_input_idx, first_factor >> >>

base_case_public_inputs(data, n_factors, first_factor, starting_product) ==
    << << data.n_factors_public_input_idx, n_factors >>,
       << data.remaining_factors_public_input_idx, n_factors >>,
       << data.product_after_chunk_public_input_idx, starting_product >>,
       << data.first_factor_after_chunk_public_input_idx, first_factor >> >>

\* variant: a first chunk proof that cannot be generated is tried again
ProveBase_retried ==
    /\ pc = "start"
    /\ RECURSIVE_PROD_CIRCUIT.initialized
    /\ \E n \in NFactorsInputs, first_factor \in FirstFactorInputs,
          starting_product \in StartingProductInputs, debug_assertions \in BOOLEAN :
        LET data == RECURSIVE_PROD_CIRCUIT.data
            n_factors == from_canonical_usize(n)
            base == cyclic_base_proof(data,
                        base_case_public_inputs(data, n_factors, first_factor,
                                                starting_product))
            proofs == recursive_circuit_prove(data, n_factors, first_factor,
                                              base, chunk_proof_verifies(base))
        IN  /\ args' = [n_factors |-> n, first_factor |-> first_factor,
                        starting_product |-> starting_product]
            /\ IF from_canonical_usize_panics(n, debug_assertions) \/ proofs = {}
               THEN /\ pc' = "start"
                    /\ UNCHANGED << proof, chunks >>
               ELSE \E c \in proofs :
                    /\ proof' = c.proof
                    /\ chunks' = Append(chunks, c)
                    /\ pc' = "loop"
    /\ UNCHANGED << call_stack, returned, RECURSIVE_PROD_CIRCUIT,
                    PRODUCT_CIRCUIT_DATA, compressed, final, verified >>
    /\ UNCHANGED << thread_vars, utility_vars >>

\* prove, lines 133-160: the first chunk proof, over the cyclic base proof
ProveBase ==
    /\ pc = "start"
    /\ RECURSIVE_PROD_CIRCUIT.initialized
    /\ \E n \in NFactorsInputs, first_factor \in FirstFactorInputs,
          starting_product \in StartingProductInputs, debug_assertions \in BOOLEAN :
        LET data == RECURSIVE_PROD_CIRCUIT.data
            n_factors == from_canonical_usize(n)
            base == cyclic_base_proof(data,
                        base_case_public_inputs(data, n_factors, first_factor,
                                                starting_product))
            proofs == recursive_circuit_prove(data, n_factors, first_factor,
                                              base, chunk_proof_verifies(base))
        IN  /\ args' = [n_factors |-> n, first_factor |-> first_factor,
                        starting_product |-> starting_product]
            /\ IF from_canonical_usize_panics(n, debug_assertions) \/ proofs = {}
               THEN /\ pc' = "panic"
                    /\ UNCHANGED << proof, chunks >>
               ELSE \E c \in proofs :
                    /\ proof' = c.proof
                    /\ chunks' = Append(chunks, c)
                    /\ pc' = "loop"
    /\ UNCHANGED << call_stack, returned, RECURSIVE_PROD_CIRCUIT,
                    PRODUCT_CIRCUIT_DATA, compressed, final, verified >>
    /\ UNCHANGED << thread_vars, utility_vars >>

\* variant: every iteration embeds the first chunk proof of the run
LoopIteration_first ==
    /\ pc = "loop"
    /\ LET data == RECURSIVE_PROD_CIRCUIT.data
           proofs == recursive_circuit_prove(data, None, None, chunks[1].proof,
                                             chunk_proof_verifies(chunks[1].proof))
       IN  /\ loop_condition(data, proof)
           /\ IF proofs = {}
              THEN /\ pc' = "panic"
                   /\ UNCHANGED << proof, chunks >>
              ELSE \E c \in proofs :
                   /\ proof' = c.proof
                   /\ chunks' = Append(chunks, c)
                   /\ pc' = "loop"
    /\ UNCHANGED << call_stack, returned, RECURSIVE_PROD_CIRCUIT,
                    PRODUCT_CIRCUIT_DATA, args, compressed, final, verified >>
    /\ UNCHANGED << thread_vars, utility_vars >>

\* one iteration of the while loop, lines 161-170
LoopIteration ==
    /\ pc = "loop"
    /\ LET data == RECURSIVE_PROD_CIRCUIT.data
           proofs == recursive_circuit_prove(data, None, None, proof,
                                             chunk_proof_verifies(proof))
       IN  /\ loop_condition(data, proof)
           /\ IF proofs = {}
              THEN /\ pc' = "panic"
                   /\ UNCHANGED << proof, chunks >>
              ELSE \E c \in proofs :
                   /\ proof' = c.proof
                   /\ chunks' = Append(chunks, c)
                   /\ pc' = "loop"
    /\ UNCHANGED << call_stack, returned, RECURSIVE_PROD_CIRCUIT,
                    PRODUCT_CIRCUIT_DATA, args, compressed, final, verified >>
    /\ UNCHANGED << thread_vars, utility_vars >>

\* product_circuit_data(): get_or_init of the compression circuit
product_circuit_data ==
    IF PRODUCT_CIRCUIT_DATA.initialized
    THEN PRODUCT_CIRCUIT_DATA
    ELSE product_circuit_data_constructor(RECURSIVE_PROD_CIRCUIT.data)

\* the loop is left; lines 172-178 compress the last chunk proof and return
Compress ==
    /\ pc = "loop"
    /\ ~loop_condition(RECURSIVE_PROD_CIRCUIT.data, proof)
    /\ PRODUCT_CIRCUIT_DATA' = product_circuit_data
    /\ compressed' = Append(compressed, proof)
    /\ LET proofs == product_circuit_prove(product_circuit_data, proof,
                                           chunk_proof_verifies(proof))
       IN  IF proofs = {}
           THEN pc' = "panic" /\ UNCHANGED final
           ELSE \E p \in proofs : final' = p /\ pc' = "done"
    /\ UNCHANGED << call_stack, returned, RECURSIVE_PROD_CIRCUIT, args, proof,
                    chunks, verified >>
    /\ UNCHANGED << thread_vars, utility_vars >>

\* a proof verifies under the compression circuit when that circuit produced it
\* from a chunk proof that verifies
product_proof_verifies(product_circuit, p) ==
    /\ p.circuit = "product_circuit"
    /\ \E i \in 1 .. Len(chunks) :
          p \in product_circuit_prove(product_circuit, chunks[i].proof, TRUE)

\* verify(proof), lines 194-201
verify(p) ==
    IF product_proof_verifies(product_circuit_data, p) THEN "ok" ELSE "err"

Verify ==
    /\ final # NoProof
    /\ PRODUCT_CIRCUIT_DATA' = product_circuit_data
    /\ verified' = verify(final)
    /\ UNCHANGED << call_stack, returned, RECURSIVE_PROD_CIRCUIT, pc, args,
                    proof, chunks, compressed, final >>
    /\ UNCHANGED << thread_vars, utility_vars >>

Next ==
    \/ EnterBuild
    \/ FinishBuild
    \/ ProveBase
    \/ LoopIteration
    \/ Compress
    \/ Verify

Spec == Init /\ [][Next]_vars

\* prove is straight-line code on one thread: once called, its loop and the
\* compression that follows it keep running
FairSpec == Spec /\ WF_vars(LoopIteration) /\ WF_vars(Compress)

\* --------------------------------------------------------- dishonest prover
\* A prover that does not run prove: it hands the chunk circuit witnesses of its
\* own choice and keeps the proofs the circuit yields.
ForgedCounts == 0 .. Pow2(MAX_N_FACTORS_BITS)

ForgedFactors == { ONE, 2 % ORDER }

ForgedProducts == { ZERO, ONE, 2 % ORDER }

\* the unverified proofs the prover puts in the cyclic proof target
forged_base_proofs(data) ==
    { cyclic_base_proof(data,
          << << data.n_factors_public_input_idx, n >>,
             << data.remaining_factors_public_input_idx,
                IF base THEN n ELSE ZERO >>,
             << data.product_after_chunk_public_input_idx, s >>,
             << data.first_factor_after_chunk_public_input_idx, f >> >>) :
        n \in ForgedCounts, base \in BOOLEAN, f \in ForgedFactors,
        s \in ForgedProducts }

\* a chunk proof over an unverified proof (first link of a chain) or over the
\* last chunk proof obtained
ForgeChunk ==
    /\ RECURSIVE_PROD_CIRCUIT.initialized
    /\ Len(chunks) < MaxChain
    /\ LET data == RECURSIVE_PROD_CIRCUIT.data
       IN  \E cyclic \in (IF chunks = << >> THEN forged_base_proofs(data)
                          ELSE { proof }) :
           \E c \in recursive_circuit_prove(data, None, None, cyclic,
                                            chunk_proof_verifies(cyclic)) :
              /\ proof' = c.proof
              /\ chunks' = Append(chunks, c)
    /\ UNCHANGED << call_stack, returned, RECURSIVE_PROD_CIRCUIT,
                    PRODUCT_CIRCUIT_DATA, pc, args, compressed, final, verified >>
    /\ UNCHANGED << thread_vars, utility_vars >>

\* the compression circuit on the last chunk proof obtained, whatever its
\* remaining_factors_after_chunk
ForgeCompress ==
    /\ chunks # << >>
    /\ final = NoProof
    /\ PRODUCT_CIRCUIT_DATA' = product_circuit_data
    /\ \E p \in product_circuit_prove(product_circuit_data, proof,
                                      chunk_proof_verifies(proof)) :
          /\ final' = p
          /\ compressed' = Append(compressed, proof)
    /\ UNCHANGED << call_stack, returned, RECURSIVE_PROD_CIRCUIT, pc, args,
                    proof, chunks, verified >>
    /\ UNCHANGED << thread_vars, utility_vars >>

ForgeNext ==
    \/ EnterBuild
    \/ FinishBuild
    \/ ForgeChunk
    \/ ForgeCompress
    \/ Verify

ForgeSpec == Init /\ [][ForgeNext]_vars

\* ------------------------------------------------------- concurrent callers
\* Several threads of one process call recursive_product_circuit, prove,
\* verify and general_permutation_gate.  A thread takes one step at a time;
\* the statics are shared, everything else is local to the thread.
MaxCalls == 3

\* the calls of prove, verify and general_permutation_gate made so far
RECURSIVE calls_of(_)
calls_of(callers) ==
    IF callers = {} THEN 0
    ELSE LET t == CHOOSE u \in callers : TRUE
         IN  threads[t].calls + calls_of(callers \ { t })

calls_made == calls_of(Threads)

\* the arguments the threads call prove with
ThreadArgs ==
    { [n_factors |-> 1, first_factor |-> 42 % ORDER, starting_product |-> ONE],
      [n_factors |-> CHUNK_SIZE + 1, first_factor |-> ONE,
       starting_product |-> 2 % ORDER] }

\* the values a public input is overwritten with
TamperValues == { ZERO, ONE }

driver_locals == << call_stack, returned, pc, args, proof, compressed, final,
                    verified >>

\* variant: get_or_init that does not wait for a running initializer
get_or_init_unguarded(cell, running) ==
    IF cell.initialized THEN "get" ELSE "init"

\* OnceLock::get_or_init as called at lines 69 and 210: the value when the cell
\* is set; otherwise the caller runs the closure, unless a thread is running it
\* already, and then the caller waits for that thread
get_or_init(cell, running) ==
    IF cell.initialized THEN "get"
    ELSE IF running THEN "wait"
    ELSE "init"

\* the recursion of build_recursive_product_circuit, lines 323-340
RECURSIVE bootstrap(_)
bootstrap(remaining_bootstrap_steps) ==
    build_recursive_product_circuit(
        N_BOOTSTRAP_STEPS, remaining_bootstrap_steps,
        IF remaining_bootstrap_steps = 0
        THEN placeholder_circuit_data
        ELSE bootstrap(remaining_bootstrap_steps - 1))

\* recursive_product_circuit(), lines 205-211
recursive_product_circuit(t) ==
    /\ threads[t].pc = "idle"
    /\ ~threads[t].circuit.initialized
    /\ LET running == \E u \in Threads :
                          threads[u].pc = "build_recursive_product_circuit"
           outcome == get_or_init(RECURSIVE_PROD_CIRCUIT, running)
       IN  \/ /\ outcome = "get"
              /\ threads' = [threads EXCEPT ![t].circuit = RECURSIVE_PROD_CIRCUIT]
              /\ observed' = [observed EXCEPT
                                 ![ChunkCircuit] = @ \cup { RECURSIVE_PROD_CIRCUIT }]
           \/ /\ outcome = "init"
              /\ threads' = [threads EXCEPT
                                ![t].pc = "build_recursive_product_circuit"]
              /\ UNCHANGED observed
    /\ UNCHANGED << driver_locals, RECURSIVE_PROD_CIRCUIT, PRODUCT_CIRCUIT_DATA,
                    chunks, CACHED_GATES, cache_lock, constructions, runs,
                    verdicts, utility_vars >>

\* the closure of line 211 returns; the cell takes the value if it is empty
BuildRecursiveProductCircuit(t) ==
    /\ threads[t].pc = "build_recursive_product_circuit"
    /\ LET cell == IF RECURSIVE_PROD_CIRCUIT.initialized
                   THEN RECURSIVE_PROD_CIRCUIT
                   ELSE [initialized |-> TRUE,
                         data |-> bootstrap(N_BOOTSTRAP_STEPS)]
       IN  /\ RECURSIVE_PROD_CIRCUIT' = cell
           /\ constructions' = [constructions EXCEPT ![ChunkCircuit] = @ + 1]
           /\ observed' = [observed EXCEPT ![ChunkCircuit] = @ \cup { cell }]
           /\ threads' = [threads EXCEPT ![t].pc = "idle", ![t].circuit = cell]
    /\ UNCHANGED << driver_locals, PRODUCT_CIRCUIT_DATA, chunks, CACHED_GATES,
                    cache_lock, runs, verdicts, utility_vars >>

\* variant: the proof a run chains on is the last one any run generated
local_proof_shared(t) == chunks[Len(chunks)].proof

\* the local `proof` of the run of prove in thread t, lines 157-169
local_proof(t) == threads[t].proof

\* prove, lines 133-160, in thread t
ThreadProve(t) ==
    /\ threads[t].pc = "idle"
    /\ threads[t].circuit.initialized
    /\ calls_made < MaxCalls
    /\ \E a \in ThreadArgs :
        LET data == threads[t].circuit.data
            n_factors == from_canonical_usize(a.n_factors)
            base == cyclic_base_proof(data,
                        base_case_public_inputs(data, n_factors, a.first_factor,
                                                a.starting_product))
            proofs == recursive_circuit_prove(data, n_factors, a.first_factor,
                                              base, chunk_proof_verifies(base))
        IN  IF proofs = {}
            THEN /\ threads' = [threads EXCEPT ![t].pc = "panic", ![t].args = a]
                 /\ UNCHANGED chunks
            ELSE \E c \in proofs :
                 /\ threads' = [threads EXCEPT
                                   ![t].pc = "loop", ![t].op = "prove",
                                   ![t].args = a, ![t].proof = c.proof,
                                   ![t].calls = @ + 1]
                 /\ chunks' = Append(chunks, c)
    /\ UNCHANGED << driver_locals, RECURSIVE_PROD_CIRCUIT, PRODUCT_CIRCUIT_DATA,
                    CACHED_GATES, cache_lock, constructions, observed, runs,
                    verdicts, utility_vars >>

\* one iteration of the while loop, lines 161-170, in thread t
ThreadLoopIteration(t) ==
    /\ threads[t].pc = "loop"
    /\ LET data == threads[t].circuit.data
           cyclic == local_proof(t)
           proofs == recursive_circuit_prove(data, None, None, cyclic,
                                             chunk_proof_verifies(cyclic))
       IN  /\ loop_condition(data, cyclic)
           /\ IF proofs = {}
              THEN /\ threads' = [threads EXCEPT ![t].pc = "panic"]
                   /\ UNCHANGED chunks
              ELSE \E c \in proofs :
                   /\ threads' = [threads EXCEPT ![t].proof = c.proof]
                   /\ chunks' = Append(chunks, c)
    /\ UNCHANGED << driver_locals, RECURSIVE_PROD_CIRCUIT, PRODUCT_CIRCUIT_DATA,
                    CACHED_GATES, cache_lock, constructions, observed, runs,
                    verdicts, utility_vars >>

\* self.product_circuit_data(), lines 63-70, called by prove when its loop is
\* left (line 172) and by verify (line 198)
ThreadProductCircuitData(t) ==
    /\ \/ /\ threads[t].pc = "loop"
          /\ ~loop_condition(threads[t].circuit.data, local_proof(t))
       \/ threads[t].pc = "verify"
    /\ LET running == \E u \in Threads :
                          threads[u].pc = "product_circuit_data_constructor"
           outcome == get_or_init(PRODUCT_CIRCUIT_DATA, running)
       IN  \/ /\ outcome = "get"
              /\ threads' = [threads EXCEPT
                                ![t].pc = "has_product_circuit",
                                ![t].product = PRODUCT_CIRCUIT_DATA]
              /\ observed' = [observed EXCEPT
                                 ![CompressionCircuit] =
                                     @ \cup { PRODUCT_CIRCUIT_DATA }]
           \/ /\ outcome = "init"
              /\ threads' = [threads EXCEPT
                                ![t].pc = "product_circuit_data_constructor"]
              /\ UNCHANGED observed
    /\ UNCHANGED << driver_locals, RECURSIVE_PROD_CIRCUIT, PRODUCT_CIRCUIT_DATA,
                    chunks, CACHED_GATES, cache_lock, constructions, runs,
                    verdicts, utility_vars >>

\* the closure of line 69 returns; the cell takes the value if it is empty
BuildProductCircuit(t) ==
    /\ threads[t].pc = "product_circuit_data_constructor"
    /\ LET cell == IF PRODUCT_CIRCUIT_DATA.initialized
                   THEN PRODUCT_CIRCUIT_DATA
                   ELSE product_circuit_data_constructor(threads[t].circuit.data)
       IN  /\ PRODUCT_CIRCUIT_DATA' = cell
           /\ constructions' = [constructions EXCEPT
                                   ![CompressionCircuit] = @ + 1]
           /\ observed' = [observed EXCEPT ![CompressionCircuit] = @ \cup { cell }]
           /\ threads' = [threads EXCEPT
                             ![t].pc = "has_product_circuit", ![t].product = cell,
                             ![t].constructed = TRUE]
    /\ UNCHANGED << driver_locals, RECURSIVE_PROD_CIRCUIT, chunks, CACHED_GATES,
                    cache_lock, runs, verdicts, utility_vars >>

\* prove, lines 174-178, in thread t: the compression proof is returned
ThreadCompress(t) ==
    /\ threads[t].pc = "has_product_circuit"
    /\ threads[t].op = "prove"
    /\ LET proofs == product_circuit_prove(threads[t].product, local_proof(t),
                                           chunk_proof_verifies(local_proof(t)))
       IN  IF proofs = {}
           THEN /\ threads' = [threads EXCEPT ![t].pc = "panic"]
                /\ UNCHANGED runs
           ELSE \E p \in proofs :
                /\ runs' = runs \cup { [args |-> threads[t].args, final |-> p] }
                /\ threads' = [threads EXCEPT
                                  ![t].pc = "idle", ![t].op = "none",
                                  ![t].args = NoArgs, ![t].proof = NoProof,
                                  ![t].constructed = FALSE]
    /\ UNCHANGED << driver_locals, RECURSIVE_PROD_CIRCUIT, PRODUCT_CIRCUIT_DATA,
                    chunks, CACHED_GATES, cache_lock, constructions, observed,
                    verdicts, utility_vars >>

\* a proof exactly as prove returned it
untouched(p) == [proof |-> p, public_inputs |-> p.public_inputs]

\* a proof whose public input number idx (0-based) was overwritten
tamper(p, idx, value) ==
    [proof |-> p, public_inputs |-> [p.public_inputs EXCEPT ![idx + 1] = value]]

\* what the threads hand to verify: the proofs prove returned, untouched or
\* with one public input overwritten, and bytes that no prover produced
Presentable ==
    { untouched(r.final) : r \in runs } \cup
    { tamper(r.final, idx, value) :
          r \in runs, idx \in { 0, 1 }, value \in TamperValues } \cup
    { [proof |-> NoProof, public_inputs |-> << ZERO, ONE >>] }

\* variant: a proof is accepted once
verify_proof_with_public_inputs_once(product_circuit, proof_with_public_inputs) ==
    IF /\ proof_with_public_inputs.public_inputs =
              proof_with_public_inputs.proof.public_inputs
       /\ product_proof_verifies(product_circuit, proof_with_public_inputs.proof)
       /\ \A i \in 1 .. Len(verdicts) :
              verdicts[i].presented # proof_with_public_inputs
    THEN "ok"
    ELSE "err"

\* variant: the verifier reads the proof part and ignores the public inputs
verify_proof_with_public_inputs_unbound(product_circuit, proof_with_public_inputs) ==
    IF product_proof_verifies(product_circuit, proof_with_public_inputs.proof)
    THEN "ok"
    ELSE "err"

\* CircuitData::verify as called at lines 198-200: the verifier derives its
\* challenges from the public inputs it is given, so a proof part answers them
\* only with the public inputs it was generated for
verify_proof_with_public_inputs(product_circuit, proof_with_public_inputs) ==
    IF /\ proof_with_public_inputs.public_inputs =
              proof_with_public_inputs.proof.public_inputs
       /\ product_proof_verifies(product_circuit, proof_with_public_inputs.proof)
    THEN "ok"
    ELSE "err"

\* verify is called in thread t, line 194
ThreadVerify(t) ==
    /\ threads[t].pc = "idle"
    /\ threads[t].circuit.initialized
    /\ calls_made < MaxCalls
    /\ \E x \in Presentable :
          threads' = [threads EXCEPT
                         ![t].pc = "verify", ![t].op = "verify",
                         ![t].presented = x, ![t].calls = @ + 1]
    /\ UNCHANGED << driver_locals, RECURSIVE_PROD_CIRCUIT, PRODUCT_CIRCUIT_DATA,
                    chunks, CACHED_GATES, cache_lock, constructions, observed,
                    runs, verdicts, utility_vars >>

\* verify returns in thread t, lines 198-200
ThreadVerifyReturn(t) ==
    /\ threads[t].pc = "has_product_circuit"
    /\ threads[t].op = "verify"
    /\ verdicts' = Append(verdicts,
          [presented |-> threads[t].presented,
           constructed |-> threads[t].constructed,
           result |-> verify_proof_with_public_inputs(threads[t].product,
                                                      threads[t].presented)])
    /\ threads' = [threads EXCEPT
                      ![t].pc = "idle", ![t].op = "none",
                      ![t].presented = NoPresented, ![t].constructed = FALSE]
    /\ UNCHANGED << driver_locals, RECURSIVE_PROD_CIRCUIT, PRODUCT_CIRCUIT_DATA,
                    chunks, CACHED_GATES, cache_lock, constructions, observed,
                    runs, utility_vars >>

\* general_permutation_gate, line 151: the thread takes the Mutex
LockCachedGates(t) ==
    /\ threads[t].pc = "idle"
    /\ calls_made < MaxCalls
    /\ cache_lock = NoThread
    /\ cache_lock' = t
    /\ \E key \in GateKeys :
          threads' = [threads EXCEPT
                         ![t].pc = "general_permutation_gate", ![t].key = key,
                         ![t].calls = @ + 1]
    /\ UNCHANGED << driver_locals, RECURSIVE_PROD_CIRCUIT, PRODUCT_CIRCUIT_DATA,
                    chunks, CACHED_GATES, constructions, observed, runs,
                    verdicts, utility_vars >>

\* variant: the lookup never finds the gate
cache_get_miss(cache, key) == NoGate

\* cache_lock.get(&(n_objects, enforce_boolean_selectors)), line 154
cache_get(cache, key) == cache[key]

\* general_permutation_gate, lines 152-168, under the Mutex: the cached gate, or
\* a new one that is inserted; the guard is dropped on return
GeneralPermutationGate(t) ==
    /\ threads[t].pc = "general_permutation_gate"
    /\ cache_lock = t
    /\ cache_lock' = NoThread
    /\ LET key == threads[t].key
           definition == CachedGate(key[1], key[2])
           cached == cache_get(CACHED_GATES, key)
           gate == try_new(key[1], bubblesort_schedule(key[1]), key[2])
       IN  IF cached.ok
           THEN /\ observed' = [observed EXCEPT ![definition] = @ \cup { cached }]
                /\ threads' = [threads EXCEPT ![t].pc = "idle"]
                /\ UNCHANGED << CACHED_GATES, constructions >>
           ELSE IF gate.ok
           THEN /\ CACHED_GATES' = [CACHED_GATES EXCEPT ![key] = gate]
                /\ constructions' = [constructions EXCEPT ![definition] = @ + 1]
                /\ observed' = [observed EXCEPT ![definition] = @ \cup { gate }]
                /\ threads' = [threads EXCEPT ![t].pc = "idle"]
           ELSE /\ threads' = [threads EXCEPT ![t].pc = "panic"]
                /\ UNCHANGED << CACHED_GATES, constructions, observed >>
    /\ UNCHANGED << driver_locals, RECURSIVE_PROD_CIRCUIT, PRODUCT_CIRCUIT_DATA,
                    chunks, runs, verdicts, utility_vars >>

ThreadNext ==
    \E t \in Threads :
        \/ recursive_product_circuit(t)
        \/ BuildRecursiveProductCircuit(t)
        \/ ThreadProve(t)
        \/ ThreadLoopIteration(t)
        \/ ThreadProductCircuitData(t)
        \/ BuildProductCircuit(t)
        \/ ThreadCompress(t)
        \/ ThreadVerify(t)
        \/ ThreadVerifyReturn(t)
        \/ LockCachedGates(t)
        \/ GeneralPermutationGate(t)

ThreadSpec == Init /\ [][ThreadNext]_vars

\* ------------------------------------------------- gates and their encodings
\* A gate and its witness generator are built, written to a buffer, and read
\* back; the buffer may be cut short or have one field overwritten on the way.
MaxObjects == 2

MaxSwaps == 2

SliceSlack == 2

\* the rows a generator sits on
Rows == { 3, 300 }

\* the schedules try_new is handed for n_objects items: the index n_objects is
\* the first one out of range
SwapSchedules(n_objects) ==
    UNION { [1 .. len -> (0 .. n_objects) \X (0 .. n_objects)] :
                len \in 0 .. MaxSwaps }

\* PermutationGate::try_new, and the generator of the gate on a row
TryNew ==
    /\ generator = NoGenerator
    /\ sliced = NotSliced
    /\ \E n_objects \in 0 .. MaxObjects, enforce_boolean_selectors \in BOOLEAN,
          row \in Rows :
       \E swap_schedule \in SwapSchedules(n_objects) :
          generator' = [row |-> row,
                        gate |-> try_new(n_objects, swap_schedule,
                                         enforce_boolean_selectors)]
    /\ UNCHANGED << driver_vars, thread_vars, buffer, deserialized, sliced >>
    /\ UNCHANGED << evaluated, product_vars, permutation_vars >>

\* serialize of the gate, or of its generator, into an empty Vec<u8>
Serialize ==
    /\ generator.gate.ok
    /\ buffer = EmptyBuffer
    /\ sliced = NotSliced
    /\ \E of \in { "gate", "generator" } :
          buffer' = [of |-> of,
                     bytes |-> IF of = "gate"
                               THEN serialize(<< >>, generator.gate)
                               ELSE serialize_generator(<< >>, generator),
                     touched |-> FALSE]
    /\ UNCHANGED << driver_vars, thread_vars, generator, deserialized, sliced >>
    /\ UNCHANGED << evaluated, product_vars, permutation_vars >>

\* the buffer loses its last bytes
Truncate ==
    /\ buffer.of # "none"
    /\ ~buffer.touched
    /\ deserialized = NotDeserialized
    /\ \E len \in 0 .. (Len(buffer.bytes) - 1) :
          buffer' = [buffer EXCEPT !.bytes = SubSeq(@, 1, len),
                                   !.touched = TRUE]
    /\ UNCHANGED << driver_vars, thread_vars, generator, deserialized, sliced >>
    /\ UNCHANGED << evaluated, product_vars, permutation_vars >>

\* one usize of the buffer is overwritten
Overwrite ==
    /\ buffer.of # "none"
    /\ ~buffer.touched
    /\ deserialized = NotDeserialized
    /\ \E field \in 0 .. (((Len(buffer.bytes) - 1) \div USIZE_BYTES) - 1),
          value \in { 0, generator.gate.n_objects, USIZE_MAX } :
          buffer' = [buffer EXCEPT
                        !.bytes = SubSeq(@, 1, field * USIZE_BYTES) \o
                                  to_le_bytes(value, USIZE_BYTES) \o
                                  SubSeq(@, (field + 1) * USIZE_BYTES + 1, Len(@)),
                        !.touched = TRUE]
    /\ UNCHANGED << driver_vars, thread_vars, generator, deserialized, sliced >>
    /\ UNCHANGED << evaluated, product_vars, permutation_vars >>

\* deserialize on the buffer
Deserialize ==
    /\ buffer.of # "none"
    /\ deserialized = NotDeserialized
    /\ deserialized' =
          IF buffer.of = "gate"
          THEN LET gate == deserialize(Buffer(buffer.bytes))
               IN  [result |-> gate.result, row |-> 0, gate |-> gate.gate]
          ELSE deserialize_generator(Buffer(buffer.bytes))
    /\ UNCHANGED << driver_vars, thread_vars, generator, buffer, sliced >>
    /\ UNCHANGED << evaluated, product_vars, permutation_vars >>

\* from_slice on the public inputs of a proof, however many they are
FromSlice ==
    /\ buffer = EmptyBuffer
    /\ sliced = NotSliced
    /\ \E len \in 0 .. (4 + 4 * num_cap_elements + SliceSlack) :
          LET slice == [k \in 1 .. len |-> k % ORDER]
              verifier_data == from_slice(slice)
          IN  sliced' = [called |-> TRUE, slice |-> slice,
                         ok |-> verifier_data.ok,
                         elements |-> verifier_data.elements]
    /\ UNCHANGED << driver_vars, thread_vars, generator, buffer, deserialized >>
    /\ UNCHANGED << evaluated, product_vars, permutation_vars >>

GateNext ==
    \/ TryNew
    \/ Serialize
    \/ Truncate
    \/ Overwrite
    \/ Deserialize
    \/ FromSlice

GateSpec == Init /\ [][GateNext]_vars

\* ------------------------------------------------------ ConsecutiveProduct
\* A ConsecutiveProduct is built for a number of factors, its first factor is
\* given a value, and its getters are called.
MaxFactors == 8

\* ConsecutiveProduct::new(circuit_builder, n_factors): n_factors + 1 product
\* targets, none of them with a value yet
ConsecutiveProduct(n_factors) ==
    [n_factors |-> n_factors, first_factor |-> None,
     product_targets |-> [k \in 1 .. (n_factors + 1) |-> None]]

first_factor_target(self) == self.first_factor

\* partial_product_target(n_factors): product_targets.get(n_factors)
partial_product_target(self, n_factors) ==
    IF n_factors < Len(self.product_targets)
    THEN [some |-> TRUE, target |-> self.product_targets[n_factors + 1]]
    ELSE [some |-> FALSE, target |-> None]

\* variant: the first product target instead of the last
final_product_target_first(self) == self.product_targets[1]

\* final_product_target(): product_targets.last()
final_product_target(self) == self.product_targets[Len(self.product_targets)]

New ==
    /\ consecutive_product = NoConsecutiveProduct
    /\ \E K \in 1 .. MaxFactors :
          consecutive_product' = ConsecutiveProduct(K)
    /\ UNCHANGED << driver_vars, thread_vars, gate_vars, permutation_vars, queried >>

\* witness.set_target(first_factor_target(), first_factor): the gates of
\* build_prod_subcircuit give the product targets their values
SetFirstFactor ==
    /\ consecutive_product # NoConsecutiveProduct
    /\ first_factor_target(consecutive_product) = None
    /\ \E first_factor \in FirstFactorInputs :
          consecutive_product' =
              [consecutive_product EXCEPT
                  !.first_factor = first_factor,
                  !.product_targets =
                      build_prod_subcircuit(first_factor,
                                            consecutive_product.n_factors)]
    /\ UNCHANGED << driver_vars, thread_vars, gate_vars, permutation_vars, queried >>

\* the getters are called on the ConsecutiveProduct
Query ==
    /\ first_factor_target(consecutive_product) # None
    /\ ~queried.called
    /\ \E n \in 0 .. (MaxFactors + 2) :
          queried' = [called |-> TRUE, n_factors |-> n,
                      partial |-> partial_product_target(consecutive_product, n),
                      final |-> final_product_target(consecutive_product)]
    /\ UNCHANGED << driver_vars, thread_vars, gate_vars, permutation_vars,
                   consecutive_product >>

ProductNext ==
    \/ New
    \/ SetFirstFactor
    \/ Query

ProductSpec == Init /\ [][ProductNext]_vars

\* ------------------------------------------------------------ swap schedules
\* A permutation is handed to permutation_to_swap_schedule of either schedule
\* type, and the selectors it returns drive the gate's generator on a vector of
\* items, as the loop body of test_gate_4_objects does.
MaxPermutation == 6

\* the sequence v with x inserted before its k-th item
insert(v, k, x) ==
    [i \in 1 .. Len(v) + 1 |-> IF i < k THEN v[i] ELSE IF i = k THEN x ELSE v[i - 1]]

\* the permutations of 0 .. n_objects - 1
RECURSIVE PermutationsOf(_)
PermutationsOf(n_objects) ==
    IF n_objects = 0 THEN { << >> }
    ELSE UNION { { insert(p, k, n_objects - 1) : k \in 1 .. n_objects } :
                     p \in PermutationsOf(n_objects - 1) }

\* the vectors of items the gate is run on: the range 0..n_objects of the test,
\* and a vector of other values
Items(n_objects) ==
    { [k \in 1 .. n_objects |-> from_canonical_usize(k - 1)],
      [k \in 1 .. n_objects |-> from_canonical_usize(3 * k + 4)] }

\* Self::permutation_to_swap_schedule(*permutation)
PermutationToSwapSchedule ==
    /\ scheduled = NotScheduled
    /\ \E Self \in ScheduleTypes, n_objects \in 0 .. MaxPermutation :
        \E permutation \in PermutationsOf(n_objects) :
            scheduled' = [of |-> Self, permutation |-> permutation,
                          returned |-> permutation_to_swap_schedule(Self, permutation)]
    /\ UNCHANGED << driver_vars, thread_vars, gate_vars, product_vars, applied,
                    iterator_vars >>

\* inverse_permutation, then the generator of the gate of the schedule type's swap
\* sequence run on the items and the selectors
RunOnce ==
    /\ scheduled # NotScheduled
    /\ ~scheduled.returned.panic
    /\ ~applied.done
    \* apply_permutation wants exactly one selector for every swap of the gate
    /\ Len(scheduled.returned.out)
           = Len(get_swap_sequence(scheduled.of, Len(scheduled.permutation)))
    /\ \E items \in Items(Len(scheduled.permutation)) :
        applied' =
            [done |-> TRUE,
             items |-> items,
             inverse_p |-> inverse_permutation(scheduled.permutation,
                               [k \in 1 .. Len(scheduled.permutation) |-> 0]),
             outputs |-> run_once(get_swap_sequence(scheduled.of,
                                                    Len(scheduled.permutation)),
                                  items,
                                  selector_values(scheduled.returned.out))]
    /\ UNCHANGED << driver_vars, thread_vars, gate_vars, product_vars, scheduled,
                    iterator_vars >>

ScheduleNext ==
    \/ PermutationToSwapSchedule
    \/ RunOnce

ScheduleSpec == Init /\ [][ScheduleNext]_vars

\* ---------------------------------------------------- the gate on a witness
\* A gate is built, its generator runs on a witness holding the input and the
\* selector wires, and the constraints of the gate are evaluated on the wires
\* the generator leaves.
SelectorValues == { ZERO, ONE, 2 % ORDER }

\* the values of the input wires: one value per item, all different
InputItems(n_objects) == [k \in 1 .. n_objects |-> from_canonical_usize(3 * k + 4)]

\* the witness before the generator runs
input_and_selector_wires(gate, inputs, selectors) ==
    [w \in 1 .. num_wires(gate) |->
        IF \E idx \in 0 .. (gate.n_objects - 1) : compute_input_wire(idx) = w - 1
        THEN inputs[(CHOOSE idx \in 0 .. (gate.n_objects - 1) :
                        compute_input_wire(idx) = w - 1) + 1]
        ELSE IF \E swap_nr \in 0 .. (Len(gate.swap_schedule) - 1) :
                    compute_selector_wire(gate.n_objects, swap_nr) = w - 1
        THEN selectors[(CHOOSE swap_nr \in 0 .. (Len(gate.swap_schedule) - 1) :
                        compute_selector_wire(gate.n_objects, swap_nr) = w - 1) + 1]
        ELSE None]

\* run_once of the generator of the gate, then eval_unfiltered on the row; a
\* conflicting write stops the generation before any evaluation
Evaluate ==
    /\ generator.gate.ok
    /\ ~evaluated.done
    /\ LET gate == generator.gate
       IN  \E inputs \in { InputItems(gate.n_objects) },
              selectors \in [1 .. Len(gate.swap_schedule) -> SelectorValues] :
           LET ran == run_once_on(gate,
                          input_and_selector_wires(gate, inputs, selectors))
               evaluation == eval_unfiltered(gate, ran.wires)
           IN  evaluated' =
                   [done |-> TRUE, inputs |-> inputs, selectors |-> selectors,
                    wires |-> ran.wires, conflict |-> ran.conflict,
                    item_values |-> ran.item_values,
                    run_once_items_tracker |-> ran.items_tracker,
                    items_tracker |-> evaluation.items_tracker,
                    constraints |-> IF ran.conflict THEN << >>
                                    ELSE evaluation.constraints]
    /\ UNCHANGED << driver_vars, thread_vars, generator, buffer, deserialized,
                    sliced, product_vars, permutation_vars >>

EvalNext ==
    \/ TryNew
    \/ Evaluate

EvalSpec == Init /\ [][EvalNext]_vars

\* ------------------------------------------------------------ PermutationsIter
\* An iterator is made over a zeroed buffer and driven by calls of next; the
\* caller holds the item it got, sorts the buffer through it as
\* permutation_to_swap_schedule does, or lets it go out of scope.
MaxBuffer == 4

\* PermutationsIter::from(buffer).into_iter()
IntoIter ==
    /\ ~knuth_l.constructed
    /\ \E n_objects \in 0 .. MaxBuffer :
        LET permutation_buffer == [k \in 1 .. n_objects |-> 0]
        IN  /\ knuth_l' = [constructed |-> TRUE,
                           permutation |-> KnuthL(permutation_buffer).permutation]
            /\ iterator_output' = [slice |-> permutation_buffer, borrowed |-> FALSE]
    /\ UNCHANGED << driver_vars, thread_vars, gate_vars, product_vars, schedule_vars,
                    item, yielded >>

\* a call of KnuthL::next; the caller reads the permutation of an Ok item
IterNext ==
    /\ knuth_l.constructed
    /\ item # "panic"
    /\ \E overflow_checks \in BOOLEAN :
        LET called == next(knuth_l, iterator_output.slice, iterator_output.borrowed,
                           overflow_checks)
        IN  /\ knuth_l' = [constructed |-> TRUE,
                           permutation |-> called.self.permutation]
            /\ iterator_output' = [slice |-> called.output,
                                   borrowed |-> called.borrowed]
            /\ item' = called.item
            /\ yielded' = IF called.item = "Ok" THEN Append(yielded, called.output)
                          ELSE yielded
    /\ UNCHANGED << driver_vars, thread_vars, gate_vars, product_vars, schedule_vars >>

\* DefaultSwapSchedule::permutation_to_swap_schedule(*permutation) on the item
\* held: the buffer is sorted in place
SortInPlace ==
    /\ iterator_output.borrowed
    /\ iterator_output' =
        [iterator_output EXCEPT
            !.slice = permutation_to_swap_schedule("RecusriveSplitTwoSchedule",
                                                   iterator_output.slice).permutation]
    /\ UNCHANGED << driver_vars, thread_vars, gate_vars, product_vars, schedule_vars,
                    knuth_l, item, yielded >>

\* the item goes out of scope
DropItem ==
    /\ iterator_output.borrowed
    /\ iterator_output' = [iterator_output EXCEPT !.borrowed = FALSE]
    /\ UNCHANGED << driver_vars, thread_vars, gate_vars, product_vars, schedule_vars,
                    knuth_l, item, yielded >>

IterStep ==
    \/ IntoIter
    \/ IterNext
    \/ SortInPlace
    \/ DropItem

IterSpec == Init /\ [][IterStep]_vars

\* ------------------------------------------------------------- references
\* the product (first_factor + lo) * ... * (first_factor + hi - 1), by halves
RECURSIVE range_product(_, _, _)
range_product(first_factor, lo, hi) ==
    IF hi <= lo THEN ONE
    ELSE IF hi = lo + 1 THEN add(first_factor, from_canonical_usize(lo))
    ELSE mul(range_product(first_factor, lo, (lo + hi) \div 2),
             range_product(first_factor, (lo + hi) \div 2, hi))

\* the value the fold of test_recursive_prod computes:
\* first_factor * (first_factor + 1) * ... * (first_factor + n_factors - 1)
expected_product(first_factor, n_factors) ==
    range_product(first_factor, 0, n_factors)

Min(a, b) == IF a <= b THEN a ELSE b

InRange(n) == n \in 0 .. (Pow2(MAX_N_FACTORS_BITS) - 1)

\* the wires of the chunk proof handed to the compression circuit
CompressedWires ==
    chunks[CHOOSE j \in 1 .. Len(chunks) : chunks[j].proof = compressed[1]].wires

\* ------------------------------------------------------------------ claims
\* C1: for every n_factors in range and every first factor f,
\* prove(n, f, 1) returns a proof that verify accepts and whose public inputs
\* are [n, f * (f+1) * ... * (f+n-1)], whatever n is relative to the chunk size.
C1_ProveReturnsProduct ==
    (InRange(args.n_factors) /\ args.starting_product = ONE) =>
        /\ pc # "panic"
        /\ pc = "done" =>
            /\ final.public_inputs =
                  << from_canonical_usize(args.n_factors),
                     expected_product(args.first_factor, args.n_factors) >>
            /\ verify(final) = "ok"

C1_Witness ==
    /\ pc = "done"
    /\ args.starting_product = ONE
    /\ args.first_factor = 42 % ORDER
    /\ args.n_factors = 2 * CHUNK_SIZE
    /\ Len(chunks) = 2
    /\ verified = "ok"

\* C2: whenever verify accepts a proof built over a chain of chunk records that
\* starts with a base case and ends with remaining_after = 0, the exposed
\* product is k * (k+1) * ... * (k+n_factors-1) for the first record's
\* first_factor_before k.
C2_AcceptedProductIsConsecutive ==
    (/\ verified = "ok"
     /\ chunks[1].wires.is_base_case
     /\ CompressedWires.remaining_factors_after_chunk = ZERO) =>
        final.public_inputs =
            << chunks[1].wires.n_factors,
               expected_product(chunks[1].wires.first_chunk_factor,
                                chunks[1].wires.n_factors) >>

\* C3: a chunk witness that is a base case (remaining_before = n_factors) with
\* product_before # 1 yields no chunk proof.
C3_ForgedBaseCaseRejected ==
    \A i \in 1 .. Len(chunks) :
        chunks[i].wires.is_base_case =>
            chunks[i].wires.product_before_chunk = ONE

C5_PublicInputOrder ==
    /\ \A i \in 1 .. Len(chunks) :
          LET w == chunks[i].wires
              pis == chunks[i].proof.public_inputs
          IN  /\ Len(pis) = 7 + 4 + 4 * num_cap_elements
              /\ SubSeq(pis, 1, 7) =
                    << w.n_factors, w.remaining_factors_before_chunk,
                       w.remaining_factors_after_chunk, w.first_chunk_factor,
                       w.first_factor_after_chunk, w.product_before_chunk,
                       w.product_after_chunk >>
              /\ \A k \in 8 .. Len(pis) :
                    pis[k] = RECURSIVE_PROD_CIRCUIT.data.digest
    /\ \A r \in 1 .. Len(returned) :
          LET d == returned[r]
          IN  /\ d.n_factors_public_input_idx = 0
              /\ d.remaining_factors_public_input_idx = 2
              /\ d.first_factor_after_chunk_public_input_idx = 4
              /\ d.product_after_chunk_public_input_idx = 6
              /\ [k \in 1 .. 7 |-> d.public_inputs[k].name] =
                    << "n_factors", "remaining_factors_before_chunk",
                       "remaining_factors_after_chunk", "first_chunk_factor",
                       "first_factor_after_chunk", "product_before_chunk",
                       "product_after_chunk" >>
              /\ \A k \in 8 .. Len(d.public_inputs) :
                    d.public_inputs[k].name \in
                        {"circuit_digest", "constants_sigmas_cap"}

C5_Witness ==
    /\ Len(returned) = N_BOOTSTRAP_STEPS + 1
    /\ Len(chunks) = 3
    /\ chunks[3].wires.remaining_factors_after_chunk = ZERO
    /\ chunks[3].wires.product_after_chunk # chunks[3].wires.product_before_chunk

\* C6: a FinalProof has exactly two public inputs, the n_factors and the
\* product_after of the chunk proof the compression circuit verified.
C6_FinalProofExposesTwo ==
    /\ PRODUCT_CIRCUIT_DATA.initialized =>
          Len(PRODUCT_CIRCUIT_DATA.public_inputs) = 2
    /\ final # NoProof =>
          /\ Len(final.public_inputs) = 2
          /\ final.public_inputs[1] = CompressedWires.n_factors
          /\ final.public_inputs[2] = CompressedWires.product_after_chunk

C6_Witness ==
    /\ final # NoProof
    /\ Len(chunks) = 2
    /\ CompressedWires.n_factors # CompressedWires.remaining_factors_before_chunk
    /\ CompressedWires.product_after_chunk # CompressedWires.product_before_chunk
    /\ CompressedWires.product_after_chunk # CompressedWires.first_factor_after_chunk

\* C7: a chunk proof that is not a base case takes its remaining_before,
\* first_factor_before, product_before and n_factors from the remaining_after,
\* first_factor_after, product_after and n_factors of the proof embedded in it;
\* n_factors is the same in every chunk record and in the FinalProof.
C7_RecursiveLinkage ==
    /\ \A i \in 1 .. Len(chunks) :
          LET w == chunks[i].wires
          IN  ~w.is_base_case =>
                /\ i > 1
                /\ chunks[i].cyclic_proof = chunks[i - 1].proof
                /\ LET v == chunks[i - 1].wires
                   IN  /\ w.remaining_factors_before_chunk =
                             v.remaining_factors_after_chunk
                       /\ w.first_chunk_factor = v.first_factor_after_chunk
                       /\ w.product_before_chunk = v.product_after_chunk
                       /\ w.n_factors = v.n_factors
    /\ \A i, j \in 1 .. Len(chunks) :
          chunks[i].wires.n_factors = chunks[j].wires.n_factors
    /\ final # NoProof => final.public_inputs[1] = chunks[1].wires.n_factors

C7_Witness ==
    /\ Len(chunks) = 3
    /\ ~chunks[2].wires.is_base_case
    /\ ~chunks[3].wires.is_base_case
    /\ chunks[3].wires.product_before_chunk # chunks[2].wires.product_before_chunk
    /\ final # NoProof

\* C8: in every valid chunk record chunk_count = remaining_before -
\* remaining_after = min(remaining_before, CHUNK_SIZE) without wrap-around:
\* remaining_after is 0 when the part of remaining_before above its low bits is
\* zero and remaining_before - CHUNK_SIZE otherwise.
C8_ChunkCountIsMin ==
    \A i \in 1 .. Len(chunks) :
        LET w == chunks[i].wires
            before == w.remaining_factors_before_chunk
            after == w.remaining_factors_after_chunk
        IN  /\ InRange(before)
            /\ after <= before
            /\ w.number_of_chunk_factors = before - after
            /\ w.number_of_chunk_factors = Min(before, CHUNK_SIZE)
            /\ after = IF before \div CHUNK_SIZE = 0 THEN 0
                       ELSE before - CHUNK_SIZE
            /\ before <= CHUNK_SIZE => after = 0

C8_Witness ==
    /\ Len(chunks) = 2
    /\ chunks[1].wires.remaining_factors_before_chunk = 2 * CHUNK_SIZE
    /\ chunks[2].wires.remaining_factors_before_chunk = CHUNK_SIZE
    /\ chunks[2].wires.remaining_factors_after_chunk = 0

\* C9: in every valid chunk record first_factor_after = first_factor_before +
\* chunk_count and product_after = product_before * (first_factor_before * ... *
\* (first_factor_before + chunk_count - 1)), the product being 1 for no factor.
C9_ChunkFold ==
    \A i \in 1 .. Len(chunks) :
        LET w == chunks[i].wires
        IN  /\ w.first_factor_after_chunk =
                  add(w.first_chunk_factor, w.number_of_chunk_factors)
            /\ w.product_after_chunk =
                  mul(w.product_before_chunk,
                      expected_product(w.first_chunk_factor,
                                       w.number_of_chunk_factors))
            /\ w.number_of_chunk_factors = 0 =>
                  w.product_after_chunk = w.product_before_chunk

C9_Witness ==
    /\ Len(chunks) = 2
    /\ chunks[2].wires.number_of_chunk_factors = 3
    /\ chunks[2].wires.product_before_chunk \notin {ZERO, ONE}
    /\ chunks[2].wires.product_after_chunk # chunks[2].wires.product_before_chunk

\* C10: for every n_factors in range the loop of prove terminates; it stops at
\* the first chunk proof whose remaining_after is 0, that proof alone is fed
\* once to the compression circuit, and no chunk proof follows.
C10_LoopTerminates ==
    /\ InRange(args.n_factors) ~> (pc = "done")
    /\ [](\A i \in 1 .. (Len(chunks) - 1) :
            chunks[i].wires.remaining_factors_after_chunk # ZERO)
    /\ [](compressed # << >> =>
            /\ Len(compressed) = 1
            /\ compressed[1] = chunks[Len(chunks)].proof
            /\ chunks[Len(chunks)].wires.remaining_factors_after_chunk = ZERO)
    /\ [](pc = "done" => compressed # << >>)

C10_Witness ==
    /\ pc = "done"
    /\ Len(chunks) = 3
    /\ Len(compressed) = 1
    /\ args.n_factors = 2 * CHUNK_SIZE + 1

\* C11: each lazily built definition (the chunk circuit, the compression
\* circuit, the cached permutation gate of a key) is constructed at most once,
\* also when threads make the first access concurrently; every caller is
\* returned the one value the static holds, and a static that holds a value
\* keeps it.
C11_ConstructedAtMostOnce ==
    /\ [](/\ \A d \in Definitions :
                constructions[d] <= 1 /\ Cardinality(observed[d]) <= 1
          /\ observed[ChunkCircuit] \subseteq { RECURSIVE_PROD_CIRCUIT }
          /\ observed[CompressionCircuit] \subseteq { PRODUCT_CIRCUIT_DATA }
          /\ \A key \in GateKeys :
                observed[CachedGate(key[1], key[2])] \subseteq
                    { CACHED_GATES[key] })
    /\ [][/\ RECURSIVE_PROD_CIRCUIT.initialized =>
                RECURSIVE_PROD_CIRCUIT' = RECURSIVE_PROD_CIRCUIT
          /\ PRODUCT_CIRCUIT_DATA.initialized =>
                PRODUCT_CIRCUIT_DATA' = PRODUCT_CIRCUIT_DATA
          /\ \A key \in GateKeys :
                CACHED_GATES[key].ok => CACHED_GATES'[key] = CACHED_GATES[key]]_vars

\* one thread runs the constructor of the compression circuit while the other
\* one, in verify, makes its first access; the chunk circuit was built once and
\* both threads hold it
C11_Witness ==
    \E t \in Threads, u \in Threads :
        /\ threads[t].pc = "product_circuit_data_constructor"
        /\ threads[u].pc = "verify"
        /\ threads[t].circuit.initialized
        /\ threads[u].circuit = threads[t].circuit
        /\ constructions[ChunkCircuit] = 1
        /\ Cardinality(observed[ChunkCircuit]) = 1

\* C12: when the generation of a chunk proof fails, prove fails at that step:
\* the step is not tried again, no later chunk proof and no compression proof
\* is attempted, and no proof is returned.
C12_FailedChunkStopsProve ==
    /\ []((args # NoArgs /\ chunks = << >>) =>
            (pc = "panic" /\ compressed = << >> /\ final = NoProof))
    /\ [][pc = "panic" =>
            /\ pc' = "panic"
            /\ chunks' = chunks
            /\ compressed' = compressed
            /\ final' = final]_vars

C12_Witness ==
    /\ pc = "panic"
    /\ args.n_factors = Pow2(MAX_N_FACTORS_BITS)
    /\ chunks = << >>
    /\ final = NoProof

C14_RunsAreIndependent ==
    /\ [](\A r \in runs :
            r.final.public_inputs =
                << from_canonical_usize(r.args.n_factors),
                   mul(r.args.starting_product,
                       expected_product(r.args.first_factor, r.args.n_factors)) >>)
    /\ [][/\ RECURSIVE_PROD_CIRCUIT.initialized => UNCHANGED RECURSIVE_PROD_CIRCUIT
          /\ PRODUCT_CIRCUIT_DATA.initialized => UNCHANGED PRODUCT_CIRCUIT_DATA]_vars

\* two runs with different arguments returned; the single chunk proof of the
\* short one was generated between the two chunk proofs of the long one
C14_Witness ==
    /\ Cardinality({ r.args : r \in runs }) = 2
    /\ Len(chunks) = 3
    /\ chunks[1].wires.n_factors = from_canonical_usize(CHUNK_SIZE + 1)
    /\ chunks[2].wires.n_factors = from_canonical_usize(1)
    /\ chunks[3].wires.n_factors = from_canonical_usize(CHUNK_SIZE + 1)

\* C15: for every gate built by try_new and every generator of it,
\* deserialize(serialize(.)) succeeds and returns the same n_objects,
\* swap_schedule, enforce_boolean_selectors and output_wires, and for the
\* generator the same row.
C15_SerializationRoundTrips ==
    (/\ deserialized.result # "none"
     /\ buffer.bytes = IF buffer.of = "gate"
                       THEN serialize(<< >>, generator.gate)
                       ELSE serialize_generator(<< >>, generator)) =>
        /\ deserialized.result = "Ok"
        /\ deserialized.gate.n_objects = generator.gate.n_objects
        /\ deserialized.gate.swap_schedule = generator.gate.swap_schedule
        /\ deserialized.gate.enforce_boolean_selectors =
              generator.gate.enforce_boolean_selectors
        /\ deserialized.gate.output_wires = generator.gate.output_wires
        /\ buffer.of = "generator" => deserialized.row = generator.row

\* a generator on a row that takes two bytes, of a gate with two different
\* swaps, was written and read back
C15_Witness ==
    /\ deserialized.result = "Ok"
    /\ buffer.of = "generator"
    /\ ~buffer.touched
    /\ generator.row = 300
    /\ generator.gate.enforce_boolean_selectors
    /\ generator.gate.swap_schedule = << << 0, 1 >>, << 1, 0 >> >>
    /\ deserialized.gate.output_wires # << 0, 1 >>

\* the bytes of the gate in the buffer
GateBytes ==
    IF buffer.of = "generator"
    THEN SubSeq(buffer.bytes, USIZE_BYTES + 1, Len(buffer.bytes))
    ELSE buffer.bytes

\* field number k (from 0) of the bytes, as a usize
Field(bytes, k) ==
    from_le_bytes(SubSeq(bytes, k * USIZE_BYTES + 1, (k + 1) * USIZE_BYTES))

\* the buffer ends before the fields it announces
EndsEarly ==
    \/ buffer.of = "generator" /\ Len(buffer.bytes) < USIZE_BYTES
    \/ Len(GateBytes) < 2 * USIZE_BYTES
    \/ Len(GateBytes) <
          2 * USIZE_BYTES + 2 * USIZE_BYTES * Field(GateBytes, 1) + 1

\* a swap index in the buffer is not below the n_objects in the buffer
SwapIndexOutOfRange ==
    /\ ~EndsEarly
    /\ \E k \in 2 .. (2 * Field(GateBytes, 1) + 1) :
          Field(GateBytes, k) >= Field(GateBytes, 0)

\* C16: decoding malformed input ends in an error value: deserialize returns
\* IoError, and no gate, when the buffer ends before the fields it announces or
\* holds a swap index >= n_objects; from_slice returns an error on fewer than
\* 4 + 4 * cap_len public inputs; the gates built before are left as they were.
C16_MalformedInputIsAnError ==
    /\ []((deserialized.result # "none" /\ (EndsEarly \/ SwapIndexOutOfRange)) =>
            (deserialized.result = "IoError" /\ deserialized.gate = NoGate))
    /\ []((sliced.called /\ Len(sliced.slice) < 4 + 4 * num_cap_elements) =>
            (~sliced.ok /\ sliced.elements = << >>))
    /\ [][(deserialized' # deserialized \/ sliced' # sliced) =>
            UNCHANGED << generator, CACHED_GATES, RECURSIVE_PROD_CIRCUIT,
                         PRODUCT_CIRCUIT_DATA >>]_vars

RECURSIVE ApplySelected(_, _, _)
ApplySelected(v, triples, k) ==
    IF k > Len(triples) THEN v
    ELSE IF triples[k][1]
    THEN ApplySelected([v EXCEPT ![triples[k][2] + 1] = v[triples[k][3] + 1],
                                 ![triples[k][3] + 1] = v[triples[k][2] + 1]],
                       triples, k + 1)
    ELSE ApplySelected(v, triples, k + 1)

\* C19: for either schedule type and every permutation p of 0..n-1,
\* permutation_to_swap_schedule(p) returns normally; the (idx1, idx2) pairs of
\* its triples are get_swap_sequence(n), hence the same for every p of that
\* length; the swaps with a true selector, applied in order, turn p into the
\* identity; and the generator run on a vector of items with these selectors
\* puts the item of index j at index p[j], that is output[i] = input[p^-1[i]].
C19_ScheduleSortsThePermutation ==
    scheduled # NotScheduled =>
        LET p == scheduled.permutation
            n == Len(p)
            triples == scheduled.returned.out
        IN  /\ ~scheduled.returned.panic
            /\ drop_selectors(triples) = get_swap_sequence(scheduled.of, n)
            /\ ApplySelected(p, triples, 1) = [k \in 1 .. n |-> k - 1]
            /\ applied.done =>
                /\ \A j \in 1 .. n : applied.outputs[p[j] + 1] = applied.items[j]
                /\ \A i \in 1 .. n :
                    applied.outputs[i] = applied.items[applied.inverse_p[i] + 1]

\* C19 witness: the recursive schedule of a permutation of five items or more
\* that is not the identity, with selectors of both values, run on the vector
\* of the other items
C19_Witness ==
    /\ scheduled.of = "RecusriveSplitTwoSchedule"
    /\ Len(scheduled.permutation) >= 5
    /\ scheduled.permutation[1] = 3
    /\ \E k \in 1 .. Len(scheduled.returned.out) : scheduled.returned.out[k][1]
    /\ \E k \in 1 .. Len(scheduled.returned.out) : ~scheduled.returned.out[k][1]
    /\ applied.done
    /\ applied.items[1] # ZERO



\* p comes before q in lexicographic order
LexLess(p, q) ==
    \E k \in 1 .. Len(p) :
        /\ \A i \in 1 .. k - 1 : p[i] = q[i]
        /\ p[k] < q[k]

\* C20: an iterator over a buffer of length n never panics; the permutations it
\* yields are permutations of 0..n-1 in strictly growing lexicographic order,
\* the first one the identity; when next returns None they are all the n!
\* permutations and the last one is the reversed sequence (none at all for
\* n = 0); and a call of next while the buffer is borrowed returns Some(Err) and
\* leaves the iterator and the buffer as they were.
C20_IteratorYieldsEveryPermutation ==
    /\ [](knuth_l.constructed =>
            LET n == Len(iterator_output.slice)
            IN  /\ item # "panic"
                /\ \A k \in 1 .. Len(yielded) : yielded[k] \in PermutationsOf(n)
                /\ \A k \in 1 .. Len(yielded) - 1 : LexLess(yielded[k], yielded[k + 1])
                /\ yielded # << >> => yielded[1] = [k \in 1 .. n |-> k - 1]
                /\ n = 0 => yielded = << >>
                /\ (item = "None" /\ n >= 1) =>
                    /\ { yielded[k] : k \in 1 .. Len(yielded) } = PermutationsOf(n)
                    /\ yielded[Len(yielded)] = [k \in 1 .. n |-> n - k])
    /\ [][(IterNext /\ iterator_output.borrowed /\ knuth_l.permutation.some) =>
            /\ item' = "Err"
            /\ knuth_l' = knuth_l
            /\ iterator_output' = iterator_output
            /\ yielded' = yielded]_vars

\* C21: in a run of prove, remaining_factors_before_chunk equals n_factors in
\* the first chunk proof and in no later one, and it never grows from one chunk
\* proof to the next.
C21_BaseCaseOnlyFirst ==
    /\ \A i \in 1 .. Len(chunks) :
          (chunks[i].wires.remaining_factors_before_chunk
               = chunks[i].wires.n_factors) <=> (i = 1)
    /\ \A i \in 1 .. (Len(chunks) - 1) :
          chunks[i + 1].wires.remaining_factors_before_chunk
              <= chunks[i].wires.remaining_factors_before_chunk

\* C21 witness: a finished run of three chunk proofs
C21_Witness ==
    /\ pc = "done"
    /\ Len(chunks) = 3
    /\ chunks[3].wires.remaining_factors_before_chunk = 3
    /\ chunks[2].wires.remaining_factors_before_chunk = CHUNK_SIZE + 3

\* the chunk proofs and compression steps of the run that took in the proof p
Successors(p) ==
    Cardinality({ j \in 1 .. Len(chunks) : chunks[j].cyclic_proof = p })
        + Cardinality({ k \in 1 .. Len(compressed) : compressed[k] = p })

\* C22: within a run the chunk proofs are generated one after another: the
\* first one embeds the cyclic base proof, every later one embeds exactly the
\* chunk proof generated just before it, one chunk proof at most is added per
\* step and it embeds the proof the run holds at that moment; each chunk proof
\* is taken in by one successor at most, and by exactly one (the next chunk
\* proof or the compression proof) once prove has returned.
C22_ChunkProofsAreSequential ==
    /\ [](/\ chunks # << >> => chunks[1].cyclic_proof.circuit = "dummy_circuit"
          /\ \A i \in 1 .. (Len(chunks) - 1) :
                chunks[i + 1].cyclic_proof = chunks[i].proof
          /\ \A i \in 1 .. Len(chunks) : Successors(chunks[i].proof) <= 1
          /\ pc = "done" =>
                \A i \in 1 .. Len(chunks) : Successors(chunks[i].proof) = 1)
    /\ [][/\ Len(chunks') \in { Len(chunks), Len(chunks) + 1 }
          /\ SubSeq(chunks', 1, Len(chunks)) = chunks
          /\ (Len(chunks') = Len(chunks) + 1 /\ chunks # << >>) =>
                /\ chunks'[Len(chunks')].cyclic_proof = proof
                /\ proof = chunks[Len(chunks)].proof
                /\ compressed = << >>]_vars

\* C22 witness: a finished run whose third chunk proof embeds the second, the
\* second the first, and whose compression proof took in the third
C22_Witness ==
    /\ pc = "done"
    /\ Len(chunks) = 3
    /\ chunks[3].cyclic_proof = chunks[2].proof
    /\ chunks[2].cyclic_proof = chunks[1].proof
    /\ compressed = << chunks[3].proof >>

\* C23: build_recursive_product_circuit(T, T) calls itself with remaining depth
\* T, T-1, ..., 0 and every invocation can proceed until it returns; the
\* invocation of depth 0, and it alone, shapes its cyclic proof target on the
\* placeholder circuit; the invocations of depth other than T embed the mock
\* verification, the one of depth T, and it alone, the cyclic verification;
\* and the circuit recursive_product_circuit() hands out is that last one.
C23_BootstrapRounds ==
    /\ Len(call_stack) <= N_BOOTSTRAP_STEPS + 1
    /\ \A k \in 1 .. Len(call_stack) : call_stack[k] = N_BOOTSTRAP_STEPS - k + 1
    /\ call_stack # << >> => ENABLED (EnterBuild \/ FinishBuild)
    /\ Len(returned) <= N_BOOTSTRAP_STEPS + 1
    /\ \A k \in 1 .. Len(returned) :
          /\ returned[k].remaining_bootstrap_steps = k - 1
          /\ (returned[k].proof_target_shape = "placeholder") <=> (k = 1)
          /\ k # 1 => /\ returned[k].proof_target_shape = "recursive_circuit_data"
                      /\ returned[k].cyclic_proof_target_len
                            = returned[k - 1].num_public_inputs
          /\ (returned[k].verification = "cyclic") <=> (k = N_BOOTSTRAP_STEPS + 1)
          /\ k # N_BOOTSTRAP_STEPS + 1 => returned[k].verification = "mock"
    /\ RECURSIVE_PROD_CIRCUIT.initialized =>
          /\ call_stack = << >>
          /\ Len(returned) = N_BOOTSTRAP_STEPS + 1
          /\ RECURSIVE_PROD_CIRCUIT.data = returned[N_BOOTSTRAP_STEPS + 1]
          /\ RECURSIVE_PROD_CIRCUIT.data.verification = "cyclic"
          /\ RECURSIVE_PROD_CIRCUIT.data.remaining_bootstrap_steps
                = N_BOOTSTRAP_STEPS

\* C23 witness: the three invocations have returned and the outermost circuit
\* is the one in the OnceLock
C23_Witness ==
    /\ RECURSIVE_PROD_CIRCUIT.initialized
    /\ Len(returned) = 3
    /\ returned[1].verification = "mock"
    /\ returned[2].verification = "mock"
    /\ returned[3].verification = "cyclic"
    /\ RECURSIVE_PROD_CIRCUIT.data = returned[3]
    /\ pc = "start"

\* C24: the chunk circuit built in every bootstrap round has as many public
\* inputs as the placeholder of round 0, the 7 record fields and the
\* 4 + 4 * num_cap_elements verifier data, so that the cyclic proof target of
\* every round is as wide as the public inputs of the proofs it is given: the
\* cyclic base proof and the chunk proofs of the final circuit.
C24_PublicInputWidth ==
    /\ \A k \in 1 .. Len(returned) :
          /\ returned[k].num_public_inputs = 7 + 4 + 4 * num_cap_elements
          /\ returned[k].num_public_inputs = placeholder_circuit_data.num_public_inputs
          /\ returned[k].cyclic_proof_target_len = returned[k].num_public_inputs
    /\ \A i \in 1 .. Len(chunks) :
          /\ Len(chunks[i].cyclic_proof.public_inputs)
                = RECURSIVE_PROD_CIRCUIT.data.cyclic_proof_target_len
          /\ Len(chunks[i].proof.public_inputs)
                = RECURSIVE_PROD_CIRCUIT.data.cyclic_proof_target_len

\* C24 witness: all rounds built, and a chunk proof embedded in the next one
C24_Witness ==
    /\ Len(returned) = N_BOOTSTRAP_STEPS + 1
    /\ returned[1].proof_target_shape = "placeholder"
    /\ returned[1].cyclic_proof_target_len = 7 + 4 + 4 * num_cap_elements
    /\ Len(chunks) = 2
    /\ Len(chunks[2].cyclic_proof.public_inputs) = 7 + 4 + 4 * num_cap_elements

\* C25: a chunk that is not a base case (n_factors differs from
\* remaining_factors_before_chunk) embeds a proof that verifies as a proof of
\* this very circuit, carrying its verifier data; a base case is accepted
\* without that verification, over a proof that is no proof of the circuit.
\* Whether the circuit needs the embedded proof to verify is decided by the
\* base case alone.
C25_VerifiedUnlessBaseCase ==
    \A i \in 1 .. Len(chunks) :
        LET w == chunks[i].wires
            data == RECURSIVE_PROD_CIRCUIT.data
            is_base == (w.n_factors = w.remaining_factors_before_chunk)
            inner_verifier_data == from_slice(chunks[i].cyclic_proof.public_inputs)
        IN  /\ ~is_base =>
                  /\ chunks[i].cyclic_proof.circuit = "recursive_circuit_data"
                  /\ \E j \in 1 .. (i - 1) : chunks[j].proof = chunks[i].cyclic_proof
                  /\ \A k \in 1 .. Len(inner_verifier_data.elements) :
                        inner_verifier_data.elements[k] = data.digest
            /\ is_base <=>
                  chunks[i] \in recursive_circuit_prove(data, None, None,
                                                        chunks[i].cyclic_proof, FALSE)

\* C25 witness: a base case over the placeholder proof, followed by a chunk
\* that is no base case over the proof of the first
C25_Witness ==
    /\ Len(chunks) >= 2
    /\ chunks[1].wires.is_base_case
    /\ chunks[1].cyclic_proof.circuit = "dummy_circuit"
    /\ ~chunk_proof_verifies(chunks[1].cyclic_proof)
    /\ ~chunks[2].wires.is_base_case
    /\ chunks[2].cyclic_proof = chunks[1].proof

\* C26: remaining_factors_before_chunk is below 2^MAX_N_FACTORS_BITS in every
\* chunk proof, and a call of prove with n_factors of 2^MAX_N_FACTORS_BITS or
\* more fails at its first chunk proof: no chunk proof is generated and no
\* proof is returned for it.
C26_OutOfRangeCountFails ==
    /\ \A i \in 1 .. Len(chunks) :
          chunks[i].wires.remaining_factors_before_chunk
              < Pow2(MAX_N_FACTORS_BITS)
    /\ (args # NoArgs /\ args.n_factors >= Pow2(MAX_N_FACTORS_BITS)) =>
          /\ pc = "panic"
          /\ chunks = << >>
          /\ final = NoProof

\* C27: in every chunk proof, whatever the witness, number_of_chunk_factors is
\* between 0 and CHUNK_SIZE, so the lookup into the array padded to
\* 2 * CHUNK_SIZE entries selects one of the CHUNK_SIZE + 1 prefix products and
\* never a padding zero: product_after_chunk is product_before_chunk times the
\* product of the selected number of consecutive factors.
C27_LookupStaysInPrefixProducts ==
    \A i \in 1 .. Len(chunks) :
        LET w == chunks[i].wires
            prefix_products == clone_product_targets(w.first_chunk_factor, CHUNK_SIZE)
        IN  /\ w.number_of_chunk_factors \in 0 .. CHUNK_SIZE
            /\ Len(prefix_products) = CHUNK_SIZE + 1
            /\ w.number_of_chunk_factors + 1 <= Len(prefix_products)
            /\ w.product_after_chunk =
                  mul(w.product_before_chunk,
                      expected_product(w.first_chunk_factor,
                                       w.number_of_chunk_factors))

\* C27 witness: a chunk that takes the last prefix product, and one that takes
\* a product in between, none of them zero
C27_Witness ==
    /\ Len(chunks) >= 2
    /\ chunks[1].wires.number_of_chunk_factors = CHUNK_SIZE
    /\ chunks[2].wires.number_of_chunk_factors \in 1 .. (CHUNK_SIZE - 1)
    /\ chunks[1].wires.product_after_chunk # ZERO
    /\ chunks[2].wires.product_after_chunk # ZERO

\* C28: a call prove(n, f, s) that reaches the compression proof has generated
\* exactly max(1, ceil(n / CHUNK_SIZE)) chunk proofs: one for n = 0, n / CHUNK_SIZE
\* for a positive multiple of CHUNK_SIZE, and every chunk proof but the last
\* folds exactly CHUNK_SIZE factors.
C28_NumberOfChunkProofs ==
    compressed # << >> =>
        /\ Len(chunks) =
              IF args.n_factors = 0 THEN 1
              ELSE (args.n_factors + CHUNK_SIZE - 1) \div CHUNK_SIZE
        /\ \A i \in 1 .. (Len(chunks) - 1) :
              chunks[i].wires.number_of_chunk_factors = CHUNK_SIZE

\* the wire the item i of the gate ends on: the result wire of the last swap
\* that names i, the idx2-wire when that swap names i in second place, or the
\* input wire i when no swap names it
LastTouch(gate, i) ==
    LET touching == { k \in 1 .. Len(gate.swap_schedule) :
                        gate.swap_schedule[k][1] = i \/ gate.swap_schedule[k][2] = i }
        last == CHOOSE k \in touching : \A other \in touching : other <= k
    IN  IF touching = {} THEN i
        ELSE IF gate.swap_schedule[last][2] = i
        THEN gate.n_objects + 3 * (last - 1) + 2
        ELSE gate.n_objects + 3 * (last - 1) + 1

\* C29: for every gate try_new builds, output_wire(i) is the result wire of the
\* last scheduled swap that touches item i (the idx2-wire when the swap names i
\* twice), or the input wire i when no swap touches it; and the table equals
\* the item tracker at the end of eval_unfiltered and at the end of run_once.
C29_OutputWiresAreTheTracker ==
    generator.gate.ok =>
        /\ Len(generator.gate.output_wires) = generator.gate.n_objects
        /\ \A i \in 0 .. (generator.gate.n_objects - 1) :
              generator.gate.output_wires[i + 1] = LastTouch(generator.gate, i)
        /\ evaluated.done =>
              /\ evaluated.items_tracker = generator.gate.output_wires
              /\ evaluated.run_once_items_tracker = generator.gate.output_wires

\* C29 witness: a gate of two items whose last swap names item 0 twice and
\* leaves item 1 on the wire of the swap before, evaluated
C29_Witness ==
    /\ generator.gate.ok
    /\ generator.gate.n_objects = 2
    /\ generator.gate.swap_schedule = << << 1, 0 >>, << 0, 0 >> >>
    /\ generator.gate.output_wires = << 7, 3 >>
    /\ evaluated.done


\* the values the generator leaves on the output wires of the gate
output_values ==
    [k \in 1 .. generator.gate.n_objects |->
        evaluated.wires[generator.gate.output_wires[k] + 1]]

\* the swaps of the evaluated gate with the selector each one got, as triples
selected_swaps ==
    [k \in 1 .. Len(generator.gate.swap_schedule) |->
        << evaluated.selectors[k] = ONE,
           generator.gate.swap_schedule[k][1],
           generator.gate.swap_schedule[k][2] >>]

\* C30: for every gate try_new builds and every witness whose selectors are
\* all 0 or 1, run_once makes no conflicting assignment (the final write to an
\* output wire repeats the value its swap wrote, or the input), every
\* constraint of eval_unfiltered on the resulting wires is zero (two per swap,
\* three when the gate enforces boolean selectors), and the output wires hold
\* the inputs rearranged by exactly the swaps whose selector is 1.
C30_GeneratorSatisfiesTheGate ==
    ( /\ evaluated.done
      /\ \A k \in 1 .. Len(evaluated.selectors) :
            evaluated.selectors[k] \in { ZERO, ONE } ) =>
        /\ ~evaluated.conflict
        /\ Len(evaluated.constraints) =
              (IF generator.gate.enforce_boolean_selectors THEN 3 ELSE 2)
                  * Len(generator.gate.swap_schedule)
        /\ \A c \in 1 .. Len(evaluated.constraints) :
              evaluated.constraints[c] = ZERO
        /\ output_values = ApplySelected(evaluated.inputs, selected_swaps, 1)
        /\ output_values = evaluated.item_values

\* C30 witness: a gate that enforces boolean selectors, evaluated with a swap
\* taken and a swap not taken, whose outputs are not in the order of the inputs
C30_Witness ==
    /\ evaluated.done
    /\ generator.gate.enforce_boolean_selectors
    /\ Len(evaluated.selectors) >= 2
    /\ \A k \in 1 .. Len(evaluated.selectors) :
          evaluated.selectors[k] \in { ZERO, ONE }
    /\ \E k \in 1 .. Len(evaluated.selectors) : evaluated.selectors[k] = ZERO
    /\ \E k \in 1 .. Len(evaluated.selectors) : evaluated.selectors[k] = ONE
    /\ ~evaluated.conflict
    /\ output_values # evaluated.inputs

====
